---- MODULE Spec2Model ----
(***************************************************************************)
(* Conversation orchestration subsystem of backend-chatbot-tramtue:        *)
(* AgentRouter (Orchestrator._route_to_agent), MessageAnalyzer             *)
(* (Orchestrator._analyze_message), MemoryEngine and the Orchestrator's    *)
(* process_message, over the rows held by the persistence collaborator.    *)
(*                                                                         *)
(* Python exceptions are modelled as outcomes: every call yields a record  *)
(* [kind |-> "return" | "raise", value |-> ...].  A method or enum member  *)
(* that the class does not define raises AttributeError at the call site,  *)
(* as the interpreter does.  Floats in [0,1] are exact multiples of        *)
(* 1/Scale.                                                                *)
(***************************************************************************)
EXTENDS Integers, Sequences, FiniteSets, TLC

VARIABLES conversations, memories, opCount, routeRes, memRes, pmRes,
          messages, chatRes, fnRes, stream, timers, runs

vars ==
    <<conversations, memories, opCount, routeRes, memRes, pmRes, messages, chatRes, fnRes,
      stream, timers, runs>>

(***************************************************************************)
(* Outcomes of a call                                                      *)
(***************************************************************************)
None == "None"

Return(v) == [kind |-> "return", value |-> v]

Raise(e) == [kind |-> "raise", value |-> e]

Absent == "absent"

\* dict.get(key, default) for a field that may be missing from the dict
DictGet(v, default) == IF v = Absent THEN default ELSE v

(***************************************************************************)
(* Bounds of the model                                                     *)
(***************************************************************************)
\* rows the memories table may hold
MaxMemories == 2

\* memory-engine operations in one behaviour
MaxOps == 4

(***************************************************************************)
(* Closed sets of the data model                                           *)
(***************************************************************************)
AgentDecision ==
    {"discovery", "customer_service", "sales", "handoff_human", "followup", "general_chat"}

MessageType ==
    {"greeting", "question", "complaint", "purchase_intent", "personal_info",
     "followup", "goodbye"}

\* members of the ConversationState enum
ConversationState == {"active", "handoff", "completed", "archived"}

\* methods MemoryEngine defines
MemoryEngineMethods ==
    {"extract_and_store_memories", "get_user_context", "update_memory",
     "confirm_memory", "_store_memory", "_extract_personal_info",
     "_extract_preferences", "_extract_health_info"}

\* methods DatabaseClient defines (those the core calls or could call)
DatabaseClientMethods ==
    {"get_conversation", "get_conversation_messages", "create_message",
     "update_conversation", "create_memory", "get_user_memories", "update_memory",
     "create_handoff", "get_pending_handoffs", "get_pending_timers", "update_timer"}

\* the names orchestrator.py imports from app.models.database that the module
\* defines (HandoffRequest and HandoffStatus are imported but not defined)
ModelsDatabaseNames ==
    {"Message", "MessageRole", "AgentType", "ConversationState"}

\* attribute lookup on an object: AttributeError when the class lacks it
HasAttr(members, name) == name \in members

(***************************************************************************)
(* Persistence collaborator: conversations                                 *)
(***************************************************************************)
ConvIds == {"c1", "c2"}

UserIds == {"u1"}

\* what the state column of a conversations row may hold: the enum values, or
\* the free text "discovery" written through the state-update endpoint
StoredConvStates == ConversationState \cup {"discovery"}

\* DatabaseClient.get_conversation: a collaborator error is re-raised; no row
\* gives None; Conversation(**row) validates state against the enum
GetConversation(conversation_id, dbFails) ==
    IF dbFails THEN Raise("APIError")
    ELSE IF conversations[conversation_id] = Absent THEN Return(None)
    ELSE IF conversations[conversation_id] \notin ConversationState
         THEN Raise("ValidationError")
    ELSE Return(conversations[conversation_id])

(***************************************************************************)
(* Persistence collaborator: memories                                      *)
(***************************************************************************)
\* floats in [0,1] as multiples of 1/Scale; Pct(p) is p/100
Scale == 100 * 64

Pct(p) == p * 64

Min(a, b) == IF a < b THEN a ELSE b

\* self.memory_categories
MemoryCategories ==
    {"personal_info", "preferences", "health_info", "purchase_history",
     "communication_style", "context"}

CategoryThreshold(category) ==
    CASE category = "personal_info" -> Pct(80)
      [] category = "preferences" -> Pct(70)
      [] category = "health_info" -> Pct(90)
      [] category = "purchase_history" -> Pct(80)
      [] category = "communication_style" -> Pct(60)
      [] category = "context" -> Pct(50)
      [] OTHER -> Pct(50)

CategoryWeight(category) ==
    CASE category = "personal_info" -> Pct(100)
      [] category = "preferences" -> Pct(90)
      [] category = "health_info" -> Pct(100)
      [] category = "purchase_history" -> Pct(80)
      [] category = "communication_style" -> Pct(60)
      [] category = "context" -> Pct(50)
      [] OTHER -> Pct(50)

\* a memory key "category.name", kept as its two parts
Key(category, name) == [category |-> category, name |-> name]

\* rows of the memories table, in insertion order; a row's id is its index
MemoryRow(user_id, key, value, confidence, weight, needs_confirmation) ==
    [user_id |-> user_id, key |-> key, value |-> value, confidence |-> confidence,
     weight |-> weight, needs_confirmation |-> needs_confirmation, confirmed |-> FALSE]

\* ids of the user's rows
UserRows(mems, user_id) == {i \in 1..Len(mems) : mems[i].user_id = user_id}

\* DatabaseClient.get_user_memories: the user's rows ordered by weight, highest
\* first; rows of equal weight come in an order the store chooses
WeightOrders(mems, user_id) ==
    LET ids == UserRows(mems, user_id)
        n == Cardinality(ids)
    IN {o \in [1..n -> ids] :
          /\ \A i, j \in 1..n : i # j => o[i] # o[j]
          /\ \A i, j \in 1..n : i < j => mems[o[i]].weight >= mems[o[j]].weight}

\* number of distinct personal_info keys the user's facts populate
PersonalInfoCount(user_id) ==
    Cardinality({memories[i].key : i \in
        {j \in UserRows(memories, user_id) : memories[j].key.category = "personal_info"}})

\* the `< 3` of the greeting rule
ProfileCompleteCount == 3

(***************************************************************************)
(* MemoryEngine: extractors                                                *)
(***************************************************************************)
\* A conversation text, by what the extractors' patterns find in it:
\*   name      a name pattern matches (len 2..49)
\*   age       "direct" (NN tuoi), "birth_year" (sinh nam YYYY, age 10..100) or "none"
\*   phone     a 10-11 digit number starting 0 or 84
\*   fragrance the product keyword "nuoc hoa"/"perfume" occurs
\*   budget    a budget pattern matches a number > 1000
\*   pregnancy a pregnancy keyword occurs
\*   allergy   an allergy pattern matches
\*   skin      a skin-type phrase occurs
\*   overlong  a budget pattern matches a number of more than 4300 digits
\*   val       the matched text
Text(name, age, phone, fragrance, budget, pregnancy, allergy, skin, overlong, val) ==
    [name |-> name, age |-> age, phone |-> phone, fragrance |-> fragrance,
     budget |-> budget, pregnancy |-> pregnancy, allergy |-> allergy, skin |-> skin,
     overlong |-> overlong, val |-> val]

Texts ==
    { \* "toi la Lan"
      Text(TRUE, "none", FALSE, FALSE, FALSE, FALSE, FALSE, FALSE, FALSE, "v1"),
      \* "Toi co thai va bi di ung voi phan hoa"
      Text(FALSE, "none", FALSE, FALSE, FALSE, TRUE, TRUE, FALSE, FALSE, "v1"),
      \* "da kho, sinh nam 1990"
      Text(FALSE, "birth_year", FALSE, FALSE, FALSE, FALSE, FALSE, TRUE, FALSE, "v2"),
      \* "bi di ung voi nuoc hoa"
      Text(FALSE, "none", FALSE, TRUE, FALSE, FALSE, TRUE, FALSE, FALSE, "v2"),
      \* "toi la Lan, ngan sach 11...1" (5000 digits)
      Text(TRUE, "none", FALSE, FALSE, FALSE, FALSE, FALSE, FALSE, TRUE, "v1") }

Candidate(name, value, confidence) ==
    [name |-> name, value |-> value, confidence |-> confidence]

\* _extract_personal_info: name 0.9; age 0.9 (direct) or 0.8 (birth year); phone 0.8
ExtractPersonalInfo(text) ==
    (IF text.name THEN <<Candidate("name", text.val, Pct(90))>> ELSE << >>)
    \o (IF text.age = "direct" THEN <<Candidate("age", text.val, Pct(90))>>
        ELSE IF text.age = "birth_year" THEN <<Candidate("age", text.val, Pct(80))>>
        ELSE << >>)
    \o (IF text.phone THEN <<Candidate("phone", text.val, Pct(80))>> ELSE << >>)

\* _extract_preferences: product_<category> 0.7; budget_range 0.8
ExtractPreferences(text) ==
    (IF text.fragrance THEN <<Candidate("product_fragrance", "true", Pct(70))>> ELSE << >>)
    \o (IF text.budget THEN <<Candidate("budget_range", text.val, Pct(80))>> ELSE << >>)

\* _extract_health_info: pregnancy_status 0.9; allergies 0.9; skin_type 0.8
ExtractHealthInfo(text) ==
    (IF text.pregnancy THEN <<Candidate("pregnancy_status", "true", Pct(90))>> ELSE << >>)
    \o (IF text.allergy THEN <<Candidate("allergies", text.val, Pct(90))>> ELSE << >>)
    \o (IF text.skin THEN <<Candidate("skin_type", text.val, Pct(80))>> ELSE << >>)

\* an extractor raises on the text: int(match.group(1)) of _extract_preferences
\* is a ValueError for a digit string above the interpreter's limit of 4300
ExtractorRaises(text) == text.overlong

(***************************************************************************)
(* MemoryEngine: _store_memory                                             *)
(***************************************************************************)
\* the result of a step over the table: the table after it and the id of the
\* Memory it returned (0 for None)
StepResult(mems, id) == [mems |-> mems, id |-> id]

\* _store_memory(user_id, key, value, confidence, source, category, needs_confirmation):
\* below the category threshold -> None; MemoryCreate rejects a confidence outside
\* [0,1] and create_memory may raise, both caught -> None; else the row is inserted
StoreMemory(mems, user_id, key, value, confidence, category, needs_confirmation, dbFails) ==
    IF confidence < CategoryThreshold(category) THEN StepResult(mems, 0)
    ELSE IF confidence < 0 \/ confidence > Scale THEN StepResult(mems, 0)
    ELSE IF dbFails THEN StepResult(mems, 0)
    ELSE StepResult(
            Append(mems, MemoryRow(user_id, key, value, confidence,
                                   CategoryWeight(category), needs_confirmation)),
            Len(mems) + 1)

(***************************************************************************)
(* MemoryEngine: extract_and_store_memories                                *)
(***************************************************************************)
\* a category's candidates as the arguments of the _store_memory calls
StoreCalls(category, cands, needs_confirmation) ==
    [i \in 1..Len(cands) |->
        [key |-> Key(category, cands[i].name), value |-> cands[i].value,
         confidence |-> cands[i].confidence, category |-> category,
         needs_confirmation |-> needs_confirmation]]

\* the _store_memory calls of one text, in the order the three loops make them
ExtractCalls(text) ==
    StoreCalls("personal_info", ExtractPersonalInfo(text), FALSE)
    \o StoreCalls("preferences", ExtractPreferences(text), FALSE)
    \o StoreCalls("health_info", ExtractHealthInfo(text), TRUE)

\* the loops: each call's memory is appended to memories_extracted when not None;
\* failing is the set of calls on which create_memory raises
RECURSIVE StoreAll(_, _, _, _, _, _)
StoreAll(mems, stored, user_id, calls, i, failing) ==
    IF i > Len(calls) THEN [mems |-> mems, stored |-> stored]
    ELSE LET c == calls[i]
             r == StoreMemory(mems, user_id, c.key, c.value, c.confidence, c.category,
                              c.needs_confirmation, i \in failing)
         IN StoreAll(r.mems, IF r.id # 0 THEN Append(stored, r.id) ELSE stored,
                     user_id, calls, i + 1, failing)

NoKey == Key("", "")

\* what the last memory-engine call was and what came of it:
\*   returned  ids of the Memory rows returned (<< >> for None or [])
\*   created   ids of the rows the call inserted
\*   dbError   the persistence collaborator raised during the call
\*   raised    the call raised to its caller
\*   context   the fact views get_user_context returned
\*   text      the text of an extract call
\*   failing   the _store_memory calls of an extract call on which create_memory raised
MemResult(op, user_id, key, value, confidence, dbError, raised, returned, created) ==
    [op |-> op, user_id |-> user_id, key |-> key, value |-> value,
     confidence |-> confidence, dbError |-> dbError, raised |-> raised,
     returned |-> returned, created |-> created, context |-> {},
     text |-> None, failing |-> {}]

NoMemRes == MemResult("none", "u1", NoKey, "v1", 0, FALSE, FALSE, << >>, << >>)

ExtractAndStoreMemories ==
    /\ opCount < MaxOps
    /\ \E user_id \in UserIds, text \in Texts :
        LET calls == ExtractCalls(text) IN
        \E failing \in SUBSET (1..Len(calls)) :
            \* the three extractors run first; an exception of one of them goes
            \* to the except branch, which returns [] before anything is stored
            LET r == IF ExtractorRaises(text)
                     THEN [mems |-> memories, stored |-> << >>]
                     ELSE StoreAll(memories, << >>, user_id, calls, 1, failing)
            IN
            /\ ExtractorRaises(text) => failing = {}
            /\ Len(r.mems) <= MaxMemories
            /\ memories' = r.mems
            /\ memRes' = [MemResult("extract", user_id, NoKey, text.val, 0,
                                    failing # {}, FALSE, r.stored, r.stored)
                            EXCEPT !.text = text, !.failing = failing]
            /\ opCount' = opCount + 1
            /\ UNCHANGED <<conversations, routeRes, pmRes, messages, chatRes, fnRes, stream, timers, runs>>

(***************************************************************************)
(* MemoryEngine: update_memory, confirm_memory, get_user_context           *)
(***************************************************************************)
UpdateKeys ==
    {Key("personal_info", "name"), Key("health_info", "allergies"), Key("context", "topic")}

Values == {"v1", "v2"}

UpdateConfidences == {Pct(60), Pct(100)}

\* where the persistence collaborator raises during a call that first reads the
\* user's rows and then writes one
DbFailures == {"none", "read", "write"}

\* next((m for m in memories if m.key == key), None) over the rows as ordered by
\* get_user_memories: the ids that can come first (empty when no row has the key).
\* A row with the key comes first in some weight-descending order exactly when no
\* other row with the key outweighs it.
FirstWithKey(mems, user_id, key) ==
    {i \in UserRows(mems, user_id) :
        /\ mems[i].key = key
        /\ \A j \in UserRows(mems, user_id) :
              mems[j].key = key => mems[i].weight >= mems[j].weight}

\* the category _store_memory is given on update's create-new path: the call
\* passes no category, so the parameter's default applies
UpdateCreateCategory(key) == "context"

\* the needs_confirmation _store_memory is given on update's create-new path:
\* the call passes none, so the parameter's default applies
UpdateCreateNeedsConfirmation(key) == FALSE

\* the merge of update_memory: average of the confidences, weight + 0.1 capped
MergedConfidence(existing, confidence) == (existing + confidence) \div 2

\* mutant: the weight is raised without the cap
MergedWeight_Uncapped(existing) == existing + Pct(10)

MergedWeight(existing) == Min(existing + Pct(10), Scale)

\* mutant: the boost of confirm_memory without the cap
Boosted_Uncapped(x) == x + Pct(20)

\* the boost of confirm_memory
Boosted(x) == Min(x + Pct(20), Scale)

UpdateMemory ==
    /\ opCount < MaxOps
    /\ \E user_id \in UserIds, key \in UpdateKeys, value \in Values,
          confidence \in UpdateConfidences, db \in DbFailures :
        /\ opCount' = opCount + 1
        /\ UNCHANGED <<conversations, routeRes, pmRes, messages, chatRes, fnRes, stream, timers, runs>>
        /\ IF db = "read"
           THEN \* get_user_memories raises; the except branch returns None
                /\ memories' = memories
                /\ memRes' = MemResult("update", user_id, key, value, confidence,
                                       TRUE, FALSE, << >>, << >>)
           ELSE IF FirstWithKey(memories, user_id, key) # {}
           THEN \E id \in FirstWithKey(memories, user_id, key) :
                IF db = "write"
                THEN /\ memories' = memories
                     /\ memRes' = MemResult("update", user_id, key, value, confidence,
                                            TRUE, FALSE, << >>, << >>)
                ELSE /\ memories' =
                          [memories EXCEPT
                             ![id].value = value,
                             ![id].confidence = MergedConfidence(@, confidence),
                             ![id].weight = MergedWeight(@)]
                     /\ memRes' = MemResult("update", user_id, key, value, confidence,
                                            FALSE, FALSE, <<id>>, << >>)
           ELSE LET r == StoreMemory(memories, user_id, key, value, confidence,
                                     UpdateCreateCategory(key),
                                     UpdateCreateNeedsConfirmation(key), db = "write")
                    ids == IF r.id # 0 THEN <<r.id>> ELSE << >>
                IN /\ Len(r.mems) <= MaxMemories
                   /\ memories' = r.mems
                   /\ memRes' = MemResult("update", user_id, key, value, confidence,
                                          db = "write", FALSE, ids, ids)

ConfirmMemory ==
    /\ opCount < MaxOps
    /\ \E user_id \in UserIds, key \in UpdateKeys, db \in DbFailures :
        /\ opCount' = opCount + 1
        /\ UNCHANGED <<conversations, routeRes, pmRes, messages, chatRes, fnRes, stream, timers, runs>>
        /\ IF db = "read"
           THEN /\ memories' = memories
                /\ memRes' = MemResult("confirm", user_id, key, "v1", 0,
                                       TRUE, FALSE, << >>, << >>)
           ELSE IF FirstWithKey(memories, user_id, key) = {}
           THEN \* no such memory: `return memory` returns None
                /\ db = "none"
                /\ memories' = memories
                /\ memRes' = MemResult("confirm", user_id, key, "v1", 0,
                                       FALSE, FALSE, << >>, << >>)
           ELSE \E id \in FirstWithKey(memories, user_id, key) :
                IF ~memories[id].needs_confirmation
                THEN /\ db = "none"
                     /\ memories' = memories
                     /\ memRes' = MemResult("confirm", user_id, key, "v1", 0,
                                            FALSE, FALSE, <<id>>, << >>)
                ELSE IF db = "write"
                THEN /\ memories' = memories
                     /\ memRes' = MemResult("confirm", user_id, key, "v1", 0,
                                            TRUE, FALSE, << >>, << >>)
                ELSE /\ memories' =
                          [memories EXCEPT
                             ![id].needs_confirmation = FALSE,
                             ![id].confirmed = TRUE,
                             ![id].confidence = Boosted(@),
                             ![id].weight = Boosted(@)]
                     /\ memRes' = MemResult("confirm", user_id, key, "v1", 0,
                                            FALSE, FALSE, <<id>>, << >>)

\* the view get_user_context keeps of a row
FactView(row) ==
    [key |-> row.key, value |-> row.value, confidence |-> row.confidence,
     weight |-> row.weight, needs_confirmation |-> row.needs_confirmation]

\* the loop of get_user_context over the rows in order o: a later row of the
\* same key overwrites an earlier one; keys of unknown categories are skipped
ContextOf(mems, o) ==
    {FactView(mems[o[i]]) : i \in
        {k \in DOMAIN o :
            /\ mems[o[k]].key.category \in MemoryCategories
            /\ \A j \in DOMAIN o : j > k => mems[o[j]].key # mems[o[k]].key}}

GetUserContext ==
    \E user_id \in UserIds, dbFails \in BOOLEAN :
        /\ UNCHANGED <<conversations, memories, opCount, routeRes, pmRes, messages, chatRes, fnRes,
                   stream, timers, runs>>
        /\ IF dbFails
           THEN \* the except branch returns {}
                memRes' = MemResult("context", user_id, NoKey, "v1", 0,
                                    TRUE, FALSE, << >>, << >>)
           ELSE \E o \in WeightOrders(memories, user_id) :
                memRes' = [MemResult("context", user_id, NoKey, "v1", 0,
                                     FALSE, FALSE, << >>, << >>)
                             EXCEPT !.context = ContextOf(memories, o)]

(***************************************************************************)
(* TimingEngine: HumanTimingService                                        *)
(* A message is a sequence of one-character strings.  Seconds are exact    *)
(* multiples of 1/Sec, so that words/wpm*60, the complexity factors and    *)
(* the tenths of the pauses are all whole numbers of units.                *)
(***************************************************************************)
Sec == 105 * 100

Max(a, b) == IF a > b THEN a ELSE b

UpperLetters ==
    <<"A", "B", "C", "D", "E", "F", "G", "H", "I", "J", "K", "L", "M", "N", "O", "P", "Q",
      "R", "S", "T", "U", "V", "W", "X", "Y", "Z", "Á">>

LowerLetters ==
    <<"a", "b", "c", "d", "e", "f", "g", "h", "i", "j", "k", "l", "m", "n", "o", "p", "q",
      "r", "s", "t", "u", "v", "w", "x", "y", "z", "á">>

\* str.lower() on one character
LowerChar(c) ==
    IF \E k \in DOMAIN UpperLetters : UpperLetters[k] = c
    THEN LowerLetters[CHOOSE k \in DOMAIN UpperLetters : UpperLetters[k] = c]
    ELSE c

Lower(s) == [i \in 1..Len(s) |-> LowerChar(s[i])]

\* Python's `sub in s` for strings
Contains(sub, s) ==
    \E i \in 0..(Len(s) - Len(sub)) :
        \A j \in 1..Len(sub) : s[i + j] = sub[j]

IsSpace(c) == c \in {" ", "\n", "\t"}

IsDigit(c) == c \in {"0", "1", "2", "3", "4", "5", "6", "7", "8", "9"}

\* the characters of the pattern [.!?]
IsTerminator(c) == c \in {".", "!", "?"}

\* position i starts a word of message.split()
StartsWord(s, i) == ~IsSpace(s[i]) /\ (i = 1 \/ IsSpace(s[i - 1]))

\* len(message.split())
WordCount(message) == Cardinality({i \in DOMAIN message : StartsWord(message, i)})

\* position i is the first non-blank character of a piece of
\* re.split(r'[.!?]+', message)
StartsSentence(s, i) ==
    /\ ~IsSpace(s[i])
    /\ ~IsTerminator(s[i])
    /\ \A j \in 1..(i - 1) :
          (\A k \in j..(i - 1) : ~IsTerminator(s[k])) => IsSpace(s[j])

\* len([s for s in re.split(r'[.!?]+', message) if s.strip()])
SentenceCount(message) == Cardinality({i \in DOMAIN message : StartsSentence(message, i)})

\* message.count(c)
CountChar(message, c) ==
    Cardinality({i \in DOMAIN message : message[i] = c})

\* determine_complexity
DetermineComplexity(message) ==
    IF WordCount(message) <= 10 /\ SentenceCount(message) <= 1 THEN "simple"
    ELSE IF WordCount(message) <= 50 /\ SentenceCount(message) <= 3 THEN "medium"
    ELSE "complex"

\* agent_patterns.get(agent_type, TypingPattern.NORMAL)
BasePattern(agent_type) ==
    CASE agent_type = "discovery" -> "normal"
      [] agent_type = "customer_service" -> "fast"
      [] agent_type = "sales" -> "fast"
      [] agent_type = "handoff_human" -> "slow"
      [] agent_type = "followup" -> "normal"
      [] agent_type = "general_chat" -> "normal"
      [] OTHER -> "normal"

\* determine_typing_pattern
DetermineTypingPattern(agent_type, complexity) ==
    IF complexity = "complex" /\ BasePattern(agent_type) = "fast" THEN "normal"
    ELSE IF complexity = "complex" /\ BasePattern(agent_type) = "normal" THEN "thinking"
    ELSE BasePattern(agent_type)

\* self.typing_speeds, words per minute
TypingSpeed(pattern) ==
    CASE pattern = "fast" -> 70
      [] pattern = "normal" -> 50
      [] pattern = "slow" -> 30
      [] pattern = "thinking" -> 25

\* complexity_factor, in tenths
ComplexityFactor(complexity) ==
    CASE complexity = "simple" -> 8
      [] complexity = "medium" -> 10
      [] complexity = "complex" -> 13

\* base_thinking, in tenths of a second
BaseThinking(complexity) ==
    CASE complexity = "simple" -> 2
      [] complexity = "medium" -> 5
      [] complexity = "complex" -> 10

Tenths(n) == (n * Sec) \div 10

\* self.thinking_words
ThinkingWords ==
    { <<"h", "m", "m">>,
      <<"w", "e", "l", "l">>,
      <<"a", "c", "t", "u", "a", "l", "l", "y">>,
      <<"l", "e", "t", " ", "m", "e", " ", "t", "h", "i", "n", "k">>,
      <<"y", "o", "u", " ", "k", "n", "o", "w">>,
      <<"b", "a", "s", "i", "c", "a", "l", "l", "y">>,
      <<"e", "s", "s", "e", "n", "t", "i", "a", "l", "l", "y">>,
      <<"o", "b", "v", "i", "o", "u", "s", "l", "y">>,
      <<"c", "l", "e", "a", "r", "l", "y">> }

\* _calculate_thinking_time
CalculateThinkingTime(message, complexity) ==
    LET message_lower == Lower(message) IN
    Tenths(BaseThinking(complexity))
    + Tenths(3) * Cardinality({word \in ThinkingWords : Contains(word, message_lower)})
    + (IF \E i \in DOMAIN message : message[i] = "?" THEN Tenths(5) ELSE 0)
    + (IF \E i \in DOMAIN message : IsDigit(message[i]) THEN Tenths(3) ELSE 0)

\* _calculate_pause_time
CalculatePauseTime(message) ==
    Tenths(3) * (CountChar(message, ".") + CountChar(message, "!") + CountChar(message, "?"))
    + Tenths(1) * (CountChar(message, ":") + CountChar(message, ";"))
    + Tenths(2) * CountChar(message, "\n")

\* round(x, 1) of x units, as a number of tenths of a second (ties to even)
RoundToTenths(x) ==
    LET q == x \div Tenths(1)
        r == x % Tenths(1)
    IN IF 2 * r > Tenths(1) THEN q + 1
       ELSE IF 2 * r < Tenths(1) THEN q
       ELSE IF q % 2 = 0 THEN q ELSE q + 1

\* min_time and max_time of calculate_typing_delay, in tenths of a second
MinTime == 5

MaxTime == 80

\* mutant: the total is rounded without being clamped
CalculateTypingDelay_Unclamped(message, complexity, pattern) ==
    LET base_time == (WordCount(message) * 60 * Sec) \div TypingSpeed(pattern)
        typing_time == (base_time * ComplexityFactor(complexity)) \div 10
        total_time == typing_time + CalculateThinkingTime(message, complexity)
                      + CalculatePauseTime(message)
    IN RoundToTenths(total_time)

\* calculate_typing_delay: the delay in tenths of a second
CalculateTypingDelay(message, complexity, pattern) ==
    LET base_time == (WordCount(message) * 60 * Sec) \div TypingSpeed(pattern)
        typing_time == (base_time * ComplexityFactor(complexity)) \div 10
        total_time == typing_time + CalculateThinkingTime(message, complexity)
                      + CalculatePauseTime(message)
        final_time == Max(Tenths(MinTime), Min(total_time, Tenths(MaxTime)))
    IN RoundToTenths(final_time)

\* max_length's default in split_long_message
DefaultMaxLength == 200

\* str.strip()
Strip(s) ==
    LET keep == {i \in DOMAIN s : ~IsSpace(s[i])} IN
    IF keep = {} THEN << >>
    ELSE SubSeq(s, CHOOSE i \in keep : \A j \in keep : i <= j,
                   CHOOSE i \in keep : \A j \in keep : i >= j)

\* str.split(): the maximal runs of non-blank characters, in order
RECURSIVE SplitWords(_)
SplitWords(s) ==
    IF s = << >> THEN << >>
    ELSE IF IsSpace(Head(s)) THEN SplitWords(Tail(s))
    ELSE LET n == CHOOSE k \in 1..Len(s) :
                     /\ \A j \in 1..k : ~IsSpace(s[j])
                     /\ (k = Len(s) \/ IsSpace(s[k + 1]))
         IN <<SubSeq(s, 1, n)>> \o SplitWords(SubSeq(s, n + 1, Len(s)))

\* the loop of _split_by_words over words[i..], with the chunks closed so far and
\* the chunk that is open
RECURSIVE SplitByWordsLoop(_, _, _, _, _)
SplitByWordsLoop(words, i, chunks, current_chunk, max_length) ==
    IF i > Len(words)
    THEN IF current_chunk # << >> THEN Append(chunks, current_chunk) ELSE chunks
    ELSE LET word == words[i] IN
         IF Len(current_chunk) + 1 + Len(word) <= max_length
         THEN SplitByWordsLoop(words, i + 1, chunks,
                  IF current_chunk # << >> THEN current_chunk \o <<" ">> \o word ELSE word,
                  max_length)
         ELSE IF current_chunk # << >>
         THEN SplitByWordsLoop(words, i + 1, Append(chunks, current_chunk), word, max_length)
         ELSE SplitByWordsLoop(words, i + 1,
                  Append(chunks, SubSeq(word, 1, Min(max_length, Len(word)))),
                  SubSeq(word, max_length + 1, Len(word)), max_length)

\* mutant: only the first chunk of the word split is kept
SplitByWords_FirstChunkOnly(text, max_length) ==
    LET chunks == SplitByWordsLoop(SplitWords(text), 1, << >>, << >>, max_length)
    IN IF chunks = << >> THEN chunks ELSE <<chunks[1]>>

\* _split_by_words
SplitByWords(text, max_length) ==
    SplitByWordsLoop(SplitWords(text), 1, << >>, << >>, max_length)

\* the sentences the loop of split_long_message forms from
\* re.split(r'([.!?]+)', message): each piece of text joined with the run of
\* terminators after it, and the text after the last run (possibly empty)
RECURSIVE SplitSentences(_)
SplitSentences(s) ==
    LET ends == {i \in DOMAIN s :
                    /\ IsTerminator(s[i])
                    /\ (i = Len(s) \/ ~IsTerminator(s[i + 1]))}
    IN IF ends = {} THEN <<s>>
       ELSE LET e == CHOOSE i \in ends : \A j \in ends : i <= j
            IN <<SubSeq(s, 1, e)>> \o SplitSentences(SubSeq(s, e + 1, Len(s)))

\* the sentence loop of split_long_message (preserve_sentences=True)
RECURSIVE SentenceLoop(_, _, _, _, _)
SentenceLoop(sentences, i, chunks, current_chunk, max_length) ==
    IF i > Len(sentences)
    THEN IF current_chunk # << >> THEN Append(chunks, Strip(current_chunk)) ELSE chunks
    ELSE LET sentence == sentences[i] IN
         IF Len(current_chunk) + Len(sentence) <= max_length
         THEN SentenceLoop(sentences, i + 1, chunks, current_chunk \o sentence, max_length)
         ELSE IF current_chunk # << >>
         THEN SentenceLoop(sentences, i + 1, Append(chunks, Strip(current_chunk)),
                           sentence, max_length)
         ELSE SentenceLoop(sentences, i + 1, chunks \o SplitByWords(sentence, max_length),
                           current_chunk, max_length)

\* [chunk.strip() for chunk in chunks if chunk.strip()]
RECURSIVE CleanChunks(_)
CleanChunks(chunks) ==
    IF chunks = << >> THEN << >>
    ELSE (IF Strip(Head(chunks)) # << >> THEN <<Strip(Head(chunks))>> ELSE << >>)
         \o CleanChunks(Tail(chunks))

\* split_long_message
SplitLongMessage(message, max_length, preserve_sentences) ==
    IF Len(message) <= max_length THEN <<message>>
    ELSE IF preserve_sentences
    THEN CleanChunks(SentenceLoop(SplitSentences(message), 1, << >>, << >>, max_length))
    ELSE CleanChunks(SplitByWords(message, max_length))

\* simulate_typing without a callback: the typing data it returns
SimulateTyping(message, agent_type) ==
    LET complexity == DetermineComplexity(message)
        pattern == DetermineTypingPattern(agent_type, complexity)
    IN [total_delay |-> CalculateTypingDelay(message, complexity, pattern),
        complexity |-> complexity,
        pattern |-> pattern,
        chunks |-> SplitLongMessage(message, DefaultMaxLength, TRUE)]

(***************************************************************************)
(* MessageAnalysis as parsed from the generation output                    *)
(***************************************************************************)
\* intent texts, as character sequences
Intents ==
    { <<"h", "o", "i">>,
      <<"M", "u", "a">>,
      <<"x", "m", "u", "a">>,
      <<"g", "i", "á">>,
      <<"G", "I", "Á">>,
      << >> }

Mua == <<"m", "u", "a">>

Gia == <<"g", "i", "á">>

\* a JSON object: each field present with a value, or absent
ObjectAnalyses ==
    [kind : {"object"},
     type : MessageType \cup {"other", Absent},
     intent_kind : {"str", "nonstr", Absent},
     intent : Intents,
     urgency : {"low", "medium", "high", Absent},
     requires_human : {"true", "false", Absent}]

\* valid JSON that is not an object (null, a list, a string, a number)
NonObjectAnalysis ==
    [kind |-> "nonobject", type |-> Absent, intent_kind |-> Absent, intent |-> << >>,
     urgency |-> Absent, requires_human |-> Absent]

\* the safe default _analyze_message returns from its except branch
DefaultAnalysis ==
    [kind |-> "object", type |-> "question", intent_kind |-> "str",
     intent |-> <<"h", "o", "i">>, urgency |-> "low", requires_human |-> "false"]

Analyses == ObjectAnalyses \cup {NonObjectAnalysis}

(***************************************************************************)
(* AgentRouter: Orchestrator._route_to_agent                               *)
(***************************************************************************)
\* mutant of rule 1: both signals required
RequiresHandoff_And(analysis) ==
    /\ DictGet(analysis.requires_human, "false") = "true"
    /\ analysis.urgency = "high"

\* rule 1: analysis.get("requires_human", False) or analysis.get("urgency") == "high"
RequiresHandoff(analysis) ==
    \/ DictGet(analysis.requires_human, "false") = "true"
    \/ analysis.urgency = "high"

\* "mua" in intent.lower() or "giá" in intent.lower(); intent defaults to ""
HasPurchaseToken(analysis) ==
    LET intent == IF analysis.intent_kind = Absent THEN << >> ELSE analysis.intent
    IN Contains(Mua, Lower(intent)) \/ Contains(Gia, Lower(intent))

\* the if/elif chain on message_type and intent (lines 219-249)
RouteByType(analysis, user_id, conversation_id) ==
    LET message_type == DictGet(analysis.type, "question") IN
    IF message_type = "greeting"
    THEN \* user_profile = await self.memory_engine.get_user_profile(user_id)
         IF ~HasAttr(MemoryEngineMethods, "get_user_profile") THEN Raise("AttributeError")
         ELSE IF PersonalInfoCount(user_id) < ProfileCompleteCount
              THEN Return("discovery")
              ELSE Return("general_chat")
    ELSE IF message_type = "complaint" THEN Return("customer_service")
    ELSE IF message_type = "purchase_intent" THEN Return("sales")
    ELSE IF analysis.intent_kind = "nonstr" THEN Raise("AttributeError")
    ELSE IF HasPurchaseToken(analysis) THEN Return("sales")
    ELSE IF message_type = "personal_info" THEN Return("discovery")
    ELSE IF message_type = "followup" THEN Return("followup")
    ELSE \* recent_messages = await self.db.get_recent_messages(conversation_id, limit=5)
         IF ~HasAttr(DatabaseClientMethods, "get_recent_messages") THEN Raise("AttributeError")
         ELSE Return("general_chat")

\* lines 213-216: the conversation-state rule
RouteByConversation(analysis, user_id, conversation_id, dbFails) ==
    LET conversation == GetConversation(conversation_id, dbFails) IN
    IF conversation.kind = "raise" THEN conversation
    ELSE IF conversation.value # None
         THEN \* `conversation and conversation.state == ConversationState.DISCOVERY`
              IF ~HasAttr(ConversationState, "discovery") THEN Raise("AttributeError")
              ELSE IF conversation.value = "discovery" THEN Return("discovery")
              ELSE RouteByType(analysis, user_id, conversation_id)
    ELSE RouteByType(analysis, user_id, conversation_id)

RouteToAgent(analysis, user_id, conversation_id, dbFails) ==
    IF analysis.kind # "object" THEN Raise("AttributeError")
    ELSE IF RequiresHandoff(analysis) THEN Return("handoff_human")
    ELSE RouteByConversation(analysis, user_id, conversation_id, dbFails)

(***************************************************************************)
(* Orchestrator: _analyze_message and process_message                      *)
(***************************************************************************)
\* what the generation collaborator does on the analysis prompt: the call
\* raises, the text is not JSON, or the text is JSON (an object or not)
GenOutput(kind, parsed) == [kind |-> kind, parsed |-> parsed]

GenOutputs ==
    {GenOutput("call_fails", DefaultAnalysis), GenOutput("not_json", DefaultAnalysis)}
    \cup {GenOutput("json", a) : a \in Analyses}

\* _analyze_message: json.loads(response.text.strip()) is returned as it is;
\* any exception of the call or of json.loads gives the default
AnalyzeMessage(gen) ==
    IF gen.kind = "json" THEN gen.parsed ELSE DefaultAnalysis

\* "Xin lỗi, tôi đang gặp một chút vấn đề. Bạn có thể thử lại không?", letter by
\* letter without the diacritics (one character each, as in the source)
FallbackResponse ==
    << "X", "i", "n", " ", "l", "o", "i", ",", " ", "t", "o", "i", " ", "d", "a", "n",
       "g", " ", "g", "a", "p", " ", "m", "o", "t", " ", "c", "h", "u", "t", " ", "v",
       "a", "n", " ", "d", "e", ".", " ", "B", "a", "n", " ", "c", "o", " ", "t", "h",
       "e", " ", "t", "h", "u", " ", "l", "a", "i", " ", "k", "h", "o", "n", "g", "?" >>

\* the dict the except branch of process_message returns
FallbackResult ==
    LET timing_data == SimulateTyping(FallbackResponse, "error_handler") IN
    [response |-> FallbackResponse,
     agent |-> "general_chat",
     error |-> TRUE,
     typing_delay |-> timing_data.total_delay,
     message_complexity |-> timing_data.complexity,
     typing_pattern |-> timing_data.pattern,
     message_chunks |-> timing_data.chunks]

\* methods DiscoveryAgent defines
DiscoveryAgentMethods ==
    {"analyze_user_profile", "process_user_response", "get_discovery_question",
     "should_continue_discovery", "_calculate_completeness", "_identify_missing_info",
     "_suggest_next_questions", "_generate_profile_summary",
     "_generate_recommendations", "_analyze_response_quality",
     "_determine_next_action"}

\* what the generation collaborator does on an agent prompt: the call raises,
\* or it returns a reply text
Replies == {"call_fails", "text"}

\* a reply text of the generation collaborator, already stripped
ReplyText == <<"D", "a", " ", "a", ".">>

\* "Tôi sẽ chuyển bạn đến với nhân viên hỗ trợ. Vui lòng chờ trong giây lát.",
\* letter by letter without the diacritics
HandoffResponse ==
    << "T", "o", "i", " ", "s", "e", " ", "c", "h", "u", "y", "e", "n", " ", "b", "a",
       "n", " ", "d", "e", "n", " ", "v", "o", "i", " ", "n", "h", "a", "n", " ", "v",
       "i", "e", "n", " ", "h", "o", " ", "t", "r", "o", ".", " ", "V", "u", "i", " ",
       "l", "o", "n", "g", " ", "c", "h", "o", " ", "t", "r", "o", "n", "g", " ", "g",
       "i", "a", "y", " ", "l", "a", "t", "." >>

\* the response dict of an agent step (the keys process_message reads)
ResponseData(response, agent) == [response |-> response, agent |-> agent]

\* _process_handoff: HandoffRequest and HandoffStatus are not names of
\* app.models.database, and DatabaseClient has no create_handoff_request
ProcessHandoff ==
    IF ~HasAttr(ModelsDatabaseNames, "HandoffRequest") THEN Raise("NameError")
    ELSE IF ~HasAttr(DatabaseClientMethods, "create_handoff_request")
         THEN Raise("AttributeError")
    ELSE Return(ResponseData(HandoffResponse, "handoff_human"))

\* _process_discovery: self.discovery_agent.process_response(...)
ProcessDiscovery ==
    IF ~HasAttr(DiscoveryAgentMethods, "process_response") THEN Raise("AttributeError")
    ELSE Return(ResponseData(ReplyText, "discovery"))

\* _process_with_agent: Discovery and HandoffHuman have their own step, every
\* other agent formats its prompt and asks the generation collaborator
ProcessWithAgent(agent, reply) ==
    IF agent = "discovery" THEN ProcessDiscovery
    ELSE IF agent = "handoff_human" THEN ProcessHandoff
    ELSE IF reply = "call_fails" THEN Raise("GenerationError")
    ELSE Return(ResponseData(ReplyText, agent))

\* mutant: a handoff decision is answered with the handoff reply right after
\* routing, without a handoff request being stored
ProcessMessageBody_HandoffWithoutRequest(gen, reply, user_id, conversation_id, dbFails) ==
    LET agent_decision ==
            RouteToAgent(AnalyzeMessage(gen), user_id, conversation_id, dbFails)
    IN IF agent_decision.kind = "raise" THEN agent_decision
       ELSE IF agent_decision.value = "handoff_human"
       THEN Return([response |-> HandoffResponse, agent |-> "handoff_human",
                    error |-> FALSE,
                    typing_delay |-> MaxTime,
                    message_complexity |-> "medium",
                    typing_pattern |-> "normal",
                    message_chunks |-> <<HandoffResponse>>])
       ELSE Raise("AttributeError")

\* the try block of process_message: analyze, route, memory context, agent
\* step, timing, memory update, then the timing keys are added to the response.
\* The success dict has no "error" key, written here as error = FALSE.
ProcessMessageBody(gen, reply, user_id, conversation_id, dbFails) ==
    LET message_analysis == AnalyzeMessage(gen)
        agent_decision == RouteToAgent(message_analysis, user_id, conversation_id, dbFails)
    IN IF agent_decision.kind = "raise" THEN agent_decision
       ELSE \* memory_context = await self.memory_engine.get_context(user_id, conversation_id)
            IF ~HasAttr(MemoryEngineMethods, "get_context") THEN Raise("AttributeError")
       ELSE LET response_data == ProcessWithAgent(agent_decision.value, reply) IN
            IF response_data.kind = "raise" THEN response_data
       ELSE LET timing_data ==
                    SimulateTyping(response_data.value.response, agent_decision.value)
            IN \* await self.memory_engine.process_interaction(...)
               IF ~HasAttr(MemoryEngineMethods, "process_interaction")
               THEN Raise("AttributeError")
               ELSE Return([response |-> response_data.value.response,
                            agent |-> response_data.value.agent,
                            error |-> FALSE,
                            typing_delay |-> timing_data.total_delay,
                            message_complexity |-> timing_data.complexity,
                            typing_pattern |-> timing_data.pattern,
                            message_chunks |-> timing_data.chunks])

\* mutant: the except branch is recorded after a handoff request was created
\* and a later step of the try block failed
ProcessMessageSteps_HandoffCreated(gen, reply, user_id, conversation_id, dbFails) ==
    LET agent_decision ==
            RouteToAgent(AnalyzeMessage(gen), user_id, conversation_id, dbFails)
    IN IF agent_decision.kind = "raise" THEN <<"analyze", "timing">>
       ELSE IF agent_decision.value = "handoff_human"
       THEN <<"analyze", "route", "memory_context", "create_handoff", "agent",
              "timing", "timing">>
       ELSE <<"analyze", "route", "timing">>

\* the steps of one process_message call in the order they complete: analyze,
\* route, memory_context (get_context), rag_context, create_handoff (the
\* request _process_handoff stores), agent (the reply is made), timing
\* (simulate_typing, in the try block or in the except branch), memory_update
\* (process_interaction).  A step that raises is not recorded; the except
\* branch then computes the timing of the fallback reply.
ProcessMessageSteps(gen, reply, user_id, conversation_id, dbFails) ==
    LET message_analysis == AnalyzeMessage(gen)
        agent_decision == RouteToAgent(message_analysis, user_id, conversation_id, dbFails)
        except_branch == <<"timing">>
    IN <<"analyze">> \o
       (IF agent_decision.kind = "raise" THEN except_branch
        ELSE <<"route">> \o
        (IF ~HasAttr(MemoryEngineMethods, "get_context") THEN except_branch
         ELSE <<"memory_context">> \o
         (IF agent_decision.value \in {"customer_service", "sales"}
          THEN <<"rag_context">> ELSE << >>) \o
         (IF ProcessWithAgent(agent_decision.value, reply).kind = "raise"
          THEN except_branch
          ELSE (IF agent_decision.value = "handoff_human"
                THEN <<"create_handoff">> ELSE << >>) \o
               <<"agent", "timing">> \o
               (IF ~HasAttr(MemoryEngineMethods, "process_interaction")
                THEN except_branch
                ELSE <<"memory_update">>))))

\* mutant: the handler catches only the persistence collaborator's errors
ExceptException_OnlyApiError(body) ==
    IF body.kind = "raise" /\ body.value = "APIError" THEN Return(FallbackResult) ELSE body

\* `except Exception` of process_message: any exception of the try block is
\* replaced by the fallback result
ExceptException(body) ==
    IF body.kind = "raise" THEN Return(FallbackResult) ELSE body

NoRoute ==
    [called |-> FALSE, analysis |-> DefaultAnalysis, conversation_id |-> "c1",
     user_id |-> "u1", dbFails |-> FALSE, outcome |-> Return(None)]

\* one evaluation of route on some analysis, user and conversation; dbFails says
\* whether the persistence collaborator answers the lookup with an error
Route ==
    /\ ~routeRes.called
    /\ \E analysis \in Analyses, user_id \in UserIds, conversation_id \in ConvIds,
          dbFails \in BOOLEAN :
        /\ routeRes' = [called |-> TRUE, analysis |-> analysis,
                        conversation_id |-> conversation_id, user_id |-> user_id,
                        dbFails |-> dbFails,
                        outcome |-> RouteToAgent(analysis, user_id, conversation_id, dbFails)]
        /\ UNCHANGED <<conversations, memories, opCount, memRes, pmRes, messages, chatRes, fnRes,
                   stream, timers, runs>>

\* a profile with three populated personal_info facts
FullProfile ==
    << MemoryRow("u1", Key("personal_info", "name"), "v1", Pct(90), Pct(100), FALSE),
       MemoryRow("u1", Key("personal_info", "age"), "v1", Pct(90), Pct(100), FALSE),
       MemoryRow("u1", Key("personal_info", "phone"), "v1", Pct(80), Pct(100), FALSE) >>

\* what the last process_message call was given and what came of it
PmResult(called, gen, reply, user_id, conversation_id, dbFails, body, outcome) ==
    [called |-> called, gen |-> gen, reply |-> reply, user_id |-> user_id,
     conversation_id |-> conversation_id, dbFails |-> dbFails,
     analysis |-> AnalyzeMessage(gen),
     decision |-> RouteToAgent(AnalyzeMessage(gen), user_id, conversation_id, dbFails),
     steps |-> IF called
               THEN ProcessMessageSteps(gen, reply, user_id, conversation_id, dbFails)
               ELSE << >>,
     body |-> body, outcome |-> outcome]

NoPm ==
    PmResult(FALSE, GenOutput("call_fails", DefaultAnalysis), "text", "u1", "c1", FALSE,
             Return(None), Return(None))

ProcessMessage ==
    /\ ~pmRes.called
    /\ \E gen \in GenOutputs, reply \in Replies, user_id \in UserIds,
          conversation_id \in ConvIds, dbFails \in BOOLEAN :
        LET body == ProcessMessageBody(gen, reply, user_id, conversation_id, dbFails) IN
        /\ pmRes' = PmResult(TRUE, gen, reply, user_id, conversation_id, dbFails, body,
                             ExceptException(body))
        /\ UNCHANGED <<conversations, memories, opCount, routeRes, memRes, messages, chatRes, fnRes,
                   stream, timers, runs>>

(***************************************************************************)
(* Chat API: send_message                                                  *)
(***************************************************************************)
\* at most this many send_message requests in a behaviour
MaxSends == 2

\* a row of the messages table: its role and metadata["agent"] (Absent for a
\* user message, whose metadata has no agent)
MessageRow(role, agent) == [role |-> role, agent |-> agent]

NoMessages == [c \in ConvIds |-> << >>]

\* generation outputs on the analysis prompt used to drive a conversation
ChatAnalysis(type, requires_human) ==
    [kind |-> "object", type |-> type, intent_kind |-> "str",
     intent |-> <<"h", "o", "i">>, urgency |-> "low", requires_human |-> requires_human]

ChatGens ==
    {GenOutput("call_fails", DefaultAnalysis),
     GenOutput("json", ChatAnalysis("question", "false")),
     GenOutput("json", ChatAnalysis("goodbye", "false")),
     GenOutput("json", ChatAnalysis("personal_info", "false")),
     GenOutput("json", ChatAnalysis("greeting", "false")),
     GenOutput("json", ChatAnalysis("question", "true"))}

\* which call to the persistence collaborator fails during a request, if any
SendFailures == {"none", "read", "write_user", "route_read", "write_reply"}

\* metadata["agent"] of the last assistant row of a conversation, Absent if none
RECURSIVE LastReplyAgent(_)
LastReplyAgent(rows) ==
    IF rows = << >> THEN Absent
    ELSE IF rows[Len(rows)].role = "assistant" THEN rows[Len(rows)].agent
    ELSE LastReplyAgent(SubSeq(rows, 1, Len(rows) - 1))

\* what the last send_message request was given and what came of it; status is
\* the HTTP status, decision the outcome of _route_to_agent inside the request
ChatResult(called, conversation_id, gen, failure, status, prev_agent, decision, agent) ==
    [called |-> called, conversation_id |-> conversation_id, gen |-> gen,
     failure |-> failure, status |-> status, prev_agent |-> prev_agent,
     decision |-> decision, agent |-> agent]

NoChat ==
    ChatResult(FALSE, "c1", GenOutput("call_fails", DefaultAnalysis), "none", 0,
               Absent, Return(None), Absent)

\* send_message: validate the conversation, store the user's message, run
\* process_message, store the reply tagged with response_data["agent"].  Every
\* exception, the 404 included, leaves through `except Exception` as a 500.
SendMessage ==
    /\ opCount < MaxSends
    /\ \E conversation_id \in ConvIds, gen \in ChatGens, reply \in Replies,
          failure \in SendFailures :
        LET conversation == GetConversation(conversation_id, failure = "read")
            prev_agent == LastReplyAgent(messages[conversation_id])
            analysis == AnalyzeMessage(gen)
            decision == RouteToAgent(analysis, "u1", conversation_id,
                                     failure = "route_read")
            response_data ==
                ExceptException(ProcessMessageBody(gen, reply, "u1", conversation_id,
                                                   failure = "route_read"))
            withUser == [messages EXCEPT ![conversation_id] =
                            Append(@, MessageRow("user", Absent))]
            withReply == [withUser EXCEPT ![conversation_id] =
                            Append(@, MessageRow("assistant", response_data.value.agent))]
        IN
        /\ opCount' = opCount + 1
        /\ IF conversation.kind = "raise" \/ conversation.value = None
              \/ failure = "write_user"
           THEN /\ messages' = messages
                /\ chatRes' = ChatResult(TRUE, conversation_id, gen, failure, 500,
                                         prev_agent, Return(None), Absent)
           ELSE IF response_data.kind = "raise"
           THEN /\ messages' = withUser
                /\ chatRes' = ChatResult(TRUE, conversation_id, gen, failure, 500,
                                         prev_agent, decision, Absent)
           ELSE IF failure = "write_reply"
           THEN /\ messages' = withUser
                /\ chatRes' = ChatResult(TRUE, conversation_id, gen, failure, 500,
                                         prev_agent, decision, Absent)
           ELSE /\ messages' = withReply
                /\ chatRes' = ChatResult(TRUE, conversation_id, gen, failure, 200,
                                         prev_agent, decision,
                                         response_data.value.agent)
        /\ UNCHANGED <<conversations, memories, routeRes, memRes, pmRes, fnRes, stream, timers, runs>>

(***************************************************************************)
(* Pure functions: the record of the last application                      *)
(***************************************************************************)
\* no function applied yet
NoFn == [op |-> "none"]

(***************************************************************************)
(* DiscoveryAgent: _calculate_completeness                                 *)
(***************************************************************************)
\* most entries a context's lifestyle category holds
MaxLifestyle == 4

\* a user context, by the keys each category holds (lifestyle by its size)
Contexts ==
    [personal_info : SUBSET {"name", "age", "phone"},
     health_info : SUBSET {"skin_type", "pregnancy_status", "allergies"},
     preferences : SUBSET {"product_fragrance", "budget_range"},
     lifestyle : 0..MaxLifestyle]

\* the context of a user with no facts
EmptyContext ==
    [personal_info |-> {}, health_info |-> {}, preferences |-> {}, lifestyle |-> 0]

DiscoveryCategories == {"personal_info", "health_info", "preferences", "lifestyle"}

\* mutant: lifestyle weighs 0.1
DiscoveryCategoryWeight_LightLifestyle(category) ==
    IF category = "personal_info" THEN 30
    ELSE IF category = "lifestyle" THEN 10
    ELSE 25

\* category_weights, in hundredths
DiscoveryCategoryWeight(category) ==
    IF category = "personal_info" THEN 30
    ELSE IF category = "lifestyle" THEN 20
    ELSE 25

\* the part of its weight a category has filled, in tenths of the weight
FilledTenths(context, category) ==
    IF category = "personal_info"
    THEN (IF "name" \in context.personal_info \/ "age" \in context.personal_info
          THEN 5 ELSE 0)
         + (IF "name" \in context.personal_info /\ "age" \in context.personal_info
            THEN 5 ELSE 0)
    ELSE IF category = "health_info"
    THEN (IF "skin_type" \in context.health_info
             \/ "pregnancy_status" \in context.health_info
          THEN 7 ELSE 0)
         + (IF "allergies" \in context.health_info THEN 3 ELSE 0)
    ELSE IF category = "preferences"
    THEN (IF "product_fragrance" \in context.preferences THEN 6 ELSE 0)
         + (IF "budget_range" \in context.preferences THEN 4 ELSE 0)
    ELSE IF context.lifestyle > 0 THEN Min(context.lifestyle * 3, 10) ELSE 0

\* filled_weight after the loop, in thousandths
FilledWeight(context) ==
    DiscoveryCategoryWeight("personal_info") * FilledTenths(context, "personal_info")
    + DiscoveryCategoryWeight("health_info") * FilledTenths(context, "health_info")
    + DiscoveryCategoryWeight("preferences") * FilledTenths(context, "preferences")
    + DiscoveryCategoryWeight("lifestyle") * FilledTenths(context, "lifestyle")

\* total_weight after the loop, in thousandths
TotalWeight ==
    10 * (DiscoveryCategoryWeight("personal_info") + DiscoveryCategoryWeight("health_info")
          + DiscoveryCategoryWeight("preferences") + DiscoveryCategoryWeight("lifestyle"))

\* a score of 1.0
ScoreScale == 10 * 100

\* _calculate_completeness: min(filled_weight / total_weight, 1.0), over ScoreScale
CalculateCompleteness(context) ==
    IF TotalWeight > 0
    THEN Min((FilledWeight(context) * ScoreScale) \div TotalWeight, ScoreScale)
    ELSE 0

\* one application of _calculate_completeness to some context
ApplyCalculateCompleteness ==
    /\ fnRes.op = "none"
    /\ \E context \in Contexts :
        fnRes' = [op |-> "completeness", context |-> context,
                  score |-> CalculateCompleteness(context)]
    /\ UNCHANGED <<conversations, memories, opCount, routeRes, memRes, pmRes,
                   messages, chatRes, stream, timers, runs>>

(***************************************************************************)
(* HumanTimingService: _distribute_delay                                   *)
(***************************************************************************)
\* most chunks in a chunk list
MaxChunks == 3

\* the chunk lengths tried (_distribute_delay reads only len(chunk))
ChunkLengths == {0, 1, 5, 200}

\* chunk lists, each chunk given by its length
ChunkLists == UNION {[1..n -> ChunkLengths] : n \in 0..MaxChunks}

\* the delays calculate_typing_delay can return, in tenths of a second
TotalDelays == MinTime..MaxTime

RECURSIVE SeqSum(_)
\* sum(list)
SeqSum(q) == IF q = << >> THEN 0 ELSE q[1] + SeqSum(Tail(q))

\* a list of delays nums[i] / den seconds
Delays(den, nums) == [den |-> den, nums |-> nums]

\* _distribute_delay(chunks, total_delay), total_delay in tenths of a second.
\* With several chunks the delays are kept over the common denominator
\* 10 * total_length: total_delay * length for each chunk but the last, and
\* max(0.1, remaining_delay) for the last, 0.1 s being total_length of these units.
DistributeDelay(chunk_lengths, total_delay) ==
    IF chunk_lengths = << >> THEN Return(Delays(10, << >>))
    ELSE IF Len(chunk_lengths) = 1 THEN Return(Delays(10, <<total_delay>>))
    ELSE LET total_length == SeqSum(chunk_lengths)
             n == Len(chunk_lengths)
             delays == [i \in 1..(n - 1) |-> total_delay * chunk_lengths[i]]
             remaining_delay == total_delay * total_length - SeqSum(delays)
         IN IF total_length = 0 THEN Raise("ZeroDivisionError")
            ELSE Return(Delays(10 * total_length,
                               Append(delays, Max(total_length, remaining_delay))))

\* one application of _distribute_delay
ApplyDistributeDelay ==
    /\ fnRes.op = "none"
    /\ \E chunks \in ChunkLists, total_delay \in TotalDelays :
        fnRes' = [op |-> "distribute", chunks |-> chunks, total_delay |-> total_delay,
                  outcome |-> DistributeDelay(chunks, total_delay)]
    /\ UNCHANGED <<conversations, memories, opCount, routeRes, memRes, pmRes,
                   messages, chatRes, stream, timers, runs>>

(***************************************************************************)
(* HumanTimingService: split_long_message on bounded messages              *)
(***************************************************************************)
\* longest message tried
MaxMessageLen == 6

\* largest max_length tried
MaxSplitLength == 3

\* the characters messages are made of: a letter, a blank, two terminators
Alphabet == {"a", " ", ".", "?"}

TimingMessages == UNION {[1..n -> Alphabet] : n \in 0..MaxMessageLen}

\* one application of split_long_message
ApplySplitLongMessage ==
    /\ fnRes.op = "none"
    /\ \E message \in TimingMessages, max_length \in 1..MaxSplitLength,
          preserve_sentences \in BOOLEAN :
        fnRes' = [op |-> "split", message |-> message, max_length |-> max_length,
                  preserve_sentences |-> preserve_sentences,
                  chunks |-> SplitLongMessage(message, max_length, preserve_sentences)]
    /\ UNCHANGED <<conversations, memories, opCount, routeRes, memRes, pmRes,
                   messages, chatRes, stream, timers, runs>>

(***************************************************************************)
(* HumanTimingService: determine_complexity on bounded messages            *)
(***************************************************************************)
\* one application of determine_complexity
ApplyDetermineComplexity ==
    /\ fnRes.op = "none"
    /\ \E message \in TimingMessages :
        fnRes' = [op |-> "complexity", message |-> message,
                  complexity |-> DetermineComplexity(message)]
    /\ UNCHANGED <<conversations, memories, opCount, routeRes, memRes, pmRes,
                   messages, chatRes, stream, timers, runs>>

(***************************************************************************)
(* HumanTimingService: calculate_typing_delay on bounded messages          *)
(***************************************************************************)
\* most words in a message before a word is added
MaxWords == 3

\* the words messages are made of: a plain word, the two halves of a thinking
\* phrase, a number, a word with a question mark
Vocabulary ==
    { <<"a">>, <<"y", "o", "u">>, <<"k", "n", "o", "w">>, <<"7">>, <<"b", "?">> }

WordLists == UNION {[1..n -> Vocabulary] : n \in 0..MaxWords}

MessageComplexity == {"simple", "medium", "complex"}

TypingPattern == {"fast", "normal", "slow", "thinking"}

RECURSIVE JoinWords(_)
\* " ".join(words)
JoinWords(words) ==
    IF words = << >> THEN << >>
    ELSE IF Len(words) = 1 THEN words[1]
    ELSE words[1] \o <<" ">> \o JoinWords(Tail(words))

\* the word list with one more word after position at
InsertWord(words, at, word) ==
    SubSeq(words, 1, at) \o <<word>> \o SubSeq(words, at + 1, Len(words))

\* calculate_typing_delay applied to a message and to the same message with one
\* word added, complexity and pattern the same
ApplyCalculateTypingDelay ==
    /\ fnRes.op = "none"
    /\ \E words \in WordLists, complexity \in MessageComplexity,
          pattern \in TypingPattern, word \in Vocabulary :
        \E at \in 0..Len(words) :
            fnRes' = [op |-> "delay", words |-> words, complexity |-> complexity,
                      pattern |-> pattern, word |-> word, at |-> at,
                      delay |-> CalculateTypingDelay(JoinWords(words), complexity,
                                                     pattern),
                      delay_more |->
                          CalculateTypingDelay(JoinWords(InsertWord(words, at, word)),
                                               complexity, pattern)]
    /\ UNCHANGED <<conversations, memories, opCount, routeRes, memRes, pmRes,
                   messages, chatRes, stream, timers, runs>>

(***************************************************************************)
(* Streaming API: stream_chat_response and its event generator             *)
(***************************************************************************)
\* the fields of SendMessageRequest
SendMessageRequestFields == {"message", "metadata"}

\* the message texts of the stream requests
StreamMessages == {<< >>, ReplyText, FallbackResponse, HandoffResponse}

\* items of a stream, in the order they happen: an event the generator yields,
\* or an asyncio.sleep of num/den seconds
TypingStart == [event |-> "typing_start"]

Sleep(num, den) == [event |-> "sleep", num |-> num, den |-> den]

MessageChunk(chunk, chunk_index, total_chunks) ==
    [event |-> "message_chunk", chunk |-> chunk, chunk_index |-> chunk_index,
     total_chunks |-> total_chunks, is_final |-> (chunk_index = total_chunks - 1)]

MessageComplete == [event |-> "message_complete"]

StreamError == [event |-> "error"]

\* key in dict
HasKey(d, key) == key \in DOMAIN d

\* the loop of generate_stream over zip(chunks, chunk_delays): a sleep of the
\* chunk's delay, then the chunk's event, index from 0
ChunkItems(chunks, chunk_delays) ==
    LET n == Min(Len(chunks), Len(chunk_delays.nums)) IN
    [k \in 1..(2 * n) |->
        IF k % 2 = 1 THEN Sleep(chunk_delays.nums[(k + 1) \div 2], chunk_delays.den)
        ELSE MessageChunk(chunks[k \div 2], (k \div 2) - 1, Len(chunks))]

\* generate_stream run to its end on response_data: every key it reads that
\* the dict does not have raises KeyError inside the try, and the except
\* branch yields the error event and ends the stream
GenerateStream(response_data) ==
    IF ~HasKey(response_data, "agent_type") \/ ~HasKey(response_data, "metadata")
    THEN <<StreamError>>
    ELSE IF ~HasKey(response_data.metadata, "typing_delay") THEN <<StreamError>>
    ELSE IF ~HasKey(response_data.metadata, "message_chunks")
         THEN <<TypingStart, StreamError>>
    ELSE LET chunks == response_data.metadata.message_chunks
             total_delay == response_data.metadata.typing_delay
             chunk_delays ==
                 DistributeDelay([i \in DOMAIN chunks |-> Len(chunks[i])], total_delay)
         IN IF chunk_delays.kind = "raise" THEN <<TypingStart, StreamError>>
            ELSE <<TypingStart>> \o ChunkItems(chunks, chunk_delays.value)
                 \o (IF HasKey(response_data, "confidence") THEN <<MessageComplete>>
                     ELSE <<StreamError>>)

\* what the last stream request was and what came of it: the HTTP status and
\* the items of the stream
StreamResult(called, message, status, response_data, items) ==
    [called |-> called, message |-> message, status |-> status,
     response_data |-> response_data, items |-> items]

NoStream == StreamResult(FALSE, << >>, 0, None, << >>)

\* POST /streaming/chat: request.user_id, request.conversation_id and
\* request.context are read to call process_message; any exception before the
\* response is returned becomes HTTP 500; otherwise the response streams what
\* generate_stream yields
StreamChatResponse ==
    /\ ~stream.called
    /\ \E message \in StreamMessages :
        IF ~HasAttr(SendMessageRequestFields, "user_id")
           \/ ~HasAttr(SendMessageRequestFields, "conversation_id")
           \/ ~HasAttr(SendMessageRequestFields, "context")
        THEN stream' = StreamResult(TRUE, message, 500, None, << >>)
        ELSE \E gen \in GenOutputs, reply \in Replies, user_id \in UserIds,
                conversation_id \in ConvIds, dbFails \in BOOLEAN :
                LET response_data ==
                        ExceptException(ProcessMessageBody(gen, reply, user_id,
                                                           conversation_id, dbFails))
                IN stream' = StreamResult(TRUE, message, 200, response_data.value,
                                          GenerateStream(response_data.value))
    /\ UNCHANGED <<conversations, memories, opCount, routeRes, memRes, pmRes,
                   messages, chatRes, fnRes, timers, runs>>

\* generate_stream applied to a response process_message returns
ApplyGenerateStream ==
    /\ fnRes.op = "none"
    /\ \E gen \in GenOutputs, reply \in Replies, user_id \in UserIds,
          conversation_id \in ConvIds, dbFails \in BOOLEAN :
        LET response_data ==
                ExceptException(ProcessMessageBody(gen, reply, user_id,
                                                   conversation_id, dbFails))
        IN fnRes' = [op |-> "generate", response_data |-> response_data.value,
                     items |-> GenerateStream(response_data.value)]
    /\ UNCHANGED <<conversations, memories, opCount, routeRes, memRes, pmRes,
                   messages, chatRes, stream, timers, runs>>

(***************************************************************************)
(* Timers API: run_scheduled_tasks over the timers table                   *)
(***************************************************************************)
TimerIds == {"t1", "t2"}

\* the invocations of POST /timers/run that may overlap
RunIds == {"r1", "r2"}

\* the clock: run_at values around the current time Now
RunAts == {0, 1, 2}

Now == 1

\* values of the TimerStatus enum, and its member names
TimerStatus == {"pending", "running", "completed", "cancelled"}

TimerStatusMembers == {"PENDING", "RUNNING", "COMPLETED", "CANCELLED"}

\* fields of the Timer model
TimerFields ==
    {"id", "created_at", "updated_at", "user_id", "conversation_id", "timer_type",
     "run_at", "status", "payload", "attempts", "max_attempts", "last_attempt_at",
     "completed_at"}

\* methods RequestLogger defines
RequestLoggerMethods ==
    {"log_chat_request", "log_chat_response", "log_rag_operation", "log_error",
     "log_security_event"}

\* a timers row: the columns the run reads or writes
TimerRow(status, run_at) == [status |-> status, run_at |-> run_at]

\* the timers table of the specifications that do not run timers
NoTimers == [t \in TimerIds |-> TimerRow("completed", 0)]

\* the rows get_pending_timers selects: status pending and run_at <= now
PendingDue(rows) == {t \in TimerIds : rows[t].status = "pending" /\ rows[t].run_at <= Now}

\* the orders a select ... order('run_at') may return the rows in
OrderedByRunAt(rows, ids) ==
    {q \in [1..Cardinality(ids) -> ids] :
        /\ \A i, j \in DOMAIN q : i # j => q[i] # q[j]
        /\ \A i, j \in DOMAIN q : i < j => rows[q[i]].run_at <= rows[q[j]].run_at}

\* DatabaseClient.get_pending_timers(self) called with the positional arguments
\* args: the method takes none, so any argument raises TypeError at the call
GetPendingTimers(rows, args, dbFails) ==
    IF Len(args) > 0 THEN Raise("TypeError")
    ELSE IF dbFails THEN Raise("APIError")
    ELSE Return(OrderedByRunAt(rows, PendingDue(rows)))

\* one invocation of run_scheduled_tasks: where it stands, the timers that were
\* pending and due when it was called, the timers it fetched, the loop index,
\* its counters, the timer ids it handed to background_tasks.add_task, and
\* the HTTP status once it has ended
Run(pc, due, pending, i, executed_count, failed_count, scheduled, status) ==
    [pc |-> pc, due |-> due, pending |-> pending, i |-> i,
     executed_count |-> executed_count, failed_count |-> failed_count,
     scheduled |-> scheduled, status |-> status]

NoRuns == [r \in RunIds |-> Run("idle", {}, << >>, 1, 0, 0, << >>, 0)]

\* the outer except: HTTPException(status_code=500)
Aborted(run) == [run EXCEPT !.pc = "done", !.status = 500]

\* the inner except up to its await: failed_count += 1, then the update dict is
\* built from TimerStatus.FAILED and timer.metadata; an exception raised here
\* leaves the loop
EnterExcept(run) ==
    LET counted == [run EXCEPT !.failed_count = @ + 1] IN
    IF ~HasAttr(TimerStatusMembers, "FAILED") \/ ~HasAttr(TimerFields, "metadata")
    THEN Aborted(counted)
    ELSE [counted EXCEPT !.pc = "record"]

\* the loop body up to its await: add_task, executed_count += 1, then the update
\* dict is built from TimerStatus.EXECUTED
EnterTry(run) ==
    LET handed == [run EXCEPT !.scheduled = Append(@, run.pending[run.i]),
                              !.executed_count = @ + 1]
    IN IF ~HasAttr(TimerStatusMembers, "EXECUTED") THEN EnterExcept(handed)
       ELSE [handed EXCEPT !.pc = "update"]

\* after the loop: request_logger.log_event(...), then the result dict
AfterLoop(run) ==
    IF ~HasAttr(RequestLoggerMethods, "log_event") THEN Aborted(run)
    ELSE [run EXCEPT !.pc = "done", !.status = 200]

\* the head of the for loop
LoopHead(run) == IF run.i > Len(run.pending) THEN AfterLoop(run) ELSE EnterTry(run)

\* one step of one invocation of run_scheduled_tasks, from one await to the next
RunScheduledTasks ==
    \E r \in RunIds, dbFails \in BOOLEAN :
        LET run == runs[r] IN
        /\ run.pc # "done"
        /\ IF run.pc = "idle"
           THEN \* pending_timers = await db.get_pending_timers(current_time)
                LET fetched == GetPendingTimers(timers, <<Now>>, dbFails)
                    called == [run EXCEPT !.due = PendingDue(timers)]
                IN /\ timers' = timers
                   /\ IF fetched.kind = "raise"
                      THEN runs' = [runs EXCEPT ![r] = Aborted(called)]
                      ELSE \E pending \in fetched.value :
                            runs' = [runs EXCEPT
                                      ![r] = LoopHead([called EXCEPT !.pending = pending])]
           ELSE IF run.pc = "update"
           THEN \* await db.update_timer(timer.id, {"status": EXECUTED, ...})
                IF dbFails
                THEN /\ timers' = timers
                     /\ runs' = [runs EXCEPT ![r] = EnterExcept(run)]
                ELSE /\ timers' = [timers EXCEPT ![run.pending[run.i]].status = "executed"]
                     /\ runs' = [runs EXCEPT ![r] = LoopHead([run EXCEPT !.i = @ + 1])]
           ELSE \* run.pc = "record": await db.update_timer(timer.id, {"status": FAILED, ...})
                IF dbFails
                THEN /\ timers' = timers
                     /\ runs' = [runs EXCEPT ![r] = Aborted(run)]
                ELSE /\ timers' = [timers EXCEPT ![run.pending[run.i]].status = "failed"]
                     /\ runs' = [runs EXCEPT ![r] = LoopHead([run EXCEPT !.i = @ + 1])]
        /\ UNCHANGED <<conversations, memories, opCount, routeRes, memRes, pmRes,
                       messages, chatRes, fnRes, stream>>

(***************************************************************************)
(* Specifications                                                          *)
(***************************************************************************)
InitRoute ==
    /\ conversations \in [ConvIds -> StoredConvStates \cup {Absent}]
    /\ memories \in {<< >>, FullProfile}
    /\ opCount = 0
    /\ routeRes = NoRoute
    /\ memRes = NoMemRes
    /\ pmRes = NoPm
    /\ messages = NoMessages
    /\ chatRes = NoChat
    /\ fnRes = NoFn
    /\ stream = NoStream
    /\ timers = NoTimers
    /\ runs = NoRuns

SpecRoute == InitRoute /\ [][Route]_vars

InitMemory ==
    /\ conversations = [c \in ConvIds |-> Absent]
    /\ memories = << >>
    /\ opCount = 0
    /\ routeRes = NoRoute
    /\ memRes = NoMemRes
    /\ pmRes = NoPm
    /\ messages = NoMessages
    /\ chatRes = NoChat
    /\ fnRes = NoFn
    /\ stream = NoStream
    /\ timers = NoTimers
    /\ runs = NoRuns

NextMemory ==
    \/ ExtractAndStoreMemories
    \/ UpdateMemory
    \/ ConfirmMemory
    \/ GetUserContext

Spec == InitMemory /\ [][NextMemory]_vars

InitOrchestrator ==
    /\ conversations \in [ConvIds -> StoredConvStates \cup {Absent}]
    /\ memories = << >>
    /\ opCount = 0
    /\ routeRes = NoRoute
    /\ memRes = NoMemRes
    /\ pmRes = NoPm
    /\ messages = NoMessages
    /\ chatRes = NoChat
    /\ fnRes = NoFn
    /\ stream = NoStream
    /\ timers = NoTimers
    /\ runs = NoRuns

SpecOrch == InitOrchestrator /\ [][ProcessMessage]_vars

InitChat ==
    /\ conversations \in [ConvIds -> {"active", "discovery", Absent}]
    /\ memories = << >>
    /\ opCount = 0
    /\ routeRes = NoRoute
    /\ memRes = NoMemRes
    /\ pmRes = NoPm
    /\ messages = NoMessages
    /\ chatRes = NoChat
    /\ fnRes = NoFn
    /\ stream = NoStream
    /\ timers = NoTimers
    /\ runs = NoRuns

SpecChat == InitChat /\ [][SendMessage]_vars

InitFn ==
    /\ conversations = [c \in ConvIds |-> Absent]
    /\ memories = << >>
    /\ opCount = 0
    /\ routeRes = NoRoute
    /\ memRes = NoMemRes
    /\ pmRes = NoPm
    /\ messages = NoMessages
    /\ chatRes = NoChat
    /\ fnRes = NoFn
    /\ stream = NoStream
    /\ timers = NoTimers
    /\ runs = NoRuns

SpecCompleteness == InitFn /\ [][ApplyCalculateCompleteness]_vars

SpecDistribute == InitFn /\ [][ApplyDistributeDelay]_vars

SpecSplit == InitFn /\ [][ApplySplitLongMessage]_vars

SpecComplexity == InitFn /\ [][ApplyDetermineComplexity]_vars

SpecDelay == InitFn /\ [][ApplyCalculateTypingDelay]_vars

InitStream ==
    /\ conversations \in [ConvIds -> StoredConvStates \cup {Absent}]
    /\ memories = << >>
    /\ opCount = 0
    /\ routeRes = NoRoute
    /\ memRes = NoMemRes
    /\ pmRes = NoPm
    /\ messages = NoMessages
    /\ chatRes = NoChat
    /\ fnRes = NoFn
    /\ stream = NoStream
    /\ timers = NoTimers
    /\ runs = NoRuns

NextStream ==
    \/ StreamChatResponse
    \/ ApplyGenerateStream

SpecStream == InitStream /\ [][NextStream]_vars

InitTimers ==
    /\ conversations = [c \in ConvIds |-> Absent]
    /\ memories = << >>
    /\ opCount = 0
    /\ routeRes = NoRoute
    /\ memRes = NoMemRes
    /\ pmRes = NoPm
    /\ messages = NoMessages
    /\ chatRes = NoChat
    /\ fnRes = NoFn
    /\ stream = NoStream
    /\ timers \in [TimerIds -> {TimerRow(s, a) : s \in TimerStatus, a \in RunAts}]
    /\ runs = NoRuns

SpecTimers == InitTimers /\ [][RunScheduledTasks]_vars

(***************************************************************************)
(* Claims about the AgentRouter                                            *)
(***************************************************************************)
\* route was evaluated on a JSON-object analysis
Routed == routeRes.called /\ routeRes.analysis.kind = "object"

\* the conversation's stored state, as the route evaluation saw it
RoutedConvState == conversations[routeRes.conversation_id]

\* rule 1 fired on the routed analysis
Rule1Fires ==
    \/ routeRes.analysis.requires_human = "true"
    \/ routeRes.analysis.urgency = "high"

\* C1: for every analysis with requires_human = true or urgency = high, route
\* returns HandoffHuman, whatever the conversation state, message type, intent
\* and profile are (and whether or not the conversation lookup would fail).
C1_HandoffOverridesAll ==
    (Routed /\ Rule1Fires) => routeRes.outcome = Return("handoff_human")

\* C1 witness: requires_human is true while the conversation is in Discovery,
\* and route returned HandoffHuman.
C1_Witness ==
    /\ Routed
    /\ routeRes.analysis.requires_human = "true"
    /\ routeRes.analysis.urgency = "low"
    /\ RoutedConvState = "discovery"
    /\ routeRes.outcome = Return("handoff_human")

\* C8: when rule 1 does not fire and the conversation state is Discovery, route
\* returns Discovery for every message type and intent.
C8_DiscoveryStateRoutesToDiscovery ==
    (Routed /\ ~Rule1Fires /\ ~routeRes.dbFails /\ RoutedConvState = "discovery")
        => routeRes.outcome = Return("discovery")

\* rules 1 and 2 did not fire and the lookup itself did not fail
PastRule2 ==
    /\ Routed
    /\ ~Rule1Fires
    /\ ~routeRes.dbFails
    /\ RoutedConvState # "discovery"

RoutedType == DictGet(routeRes.analysis.type, "question")

\* C9: when rules 1 and 2 do not fire and the type is greeting, route returns
\* Discovery if the profile has fewer than 3 populated personal_info facts and
\* GeneralChat if it has 3 or more.
C9_GreetingByProfile ==
    (PastRule2 /\ RoutedType = "greeting")
        => routeRes.outcome =
              IF PersonalInfoCount(routeRes.user_id) < ProfileCompleteCount
              THEN Return("discovery")
              ELSE Return("general_chat")

\* the decision rules 4 to 7 give for a type and intent text, first match wins
Rules4To7(type, hasToken) ==
    IF type = "complaint" THEN "customer_service"
    ELSE IF type = "purchase_intent" \/ hasToken THEN "sales"
    ELSE IF type = "personal_info" THEN "discovery"
    ELSE IF type = "followup" THEN "followup"
    ELSE None

\* C10: when rules 1 to 3 do not fire, route follows rules 4 to 7 in order:
\* complaint gives CustomerService even with a purchase token in the intent;
\* else purchase_intent or a purchase token gives Sales; else personal_info
\* gives Discovery; else followup gives Followup.
C10_Rules4To7InOrder ==
    (/\ PastRule2
     /\ RoutedType # "greeting"
     /\ routeRes.analysis.intent_kind # "nonstr"
     /\ Rules4To7(RoutedType, HasPurchaseToken(routeRes.analysis)) # None)
        => routeRes.outcome =
              Return(Rules4To7(RoutedType, HasPurchaseToken(routeRes.analysis)))

\* Rules 4 to 7 as C10 states them do hold on every lookup that finds no
\* conversation row: the failures of C10 all go through an existing row.
C10_HoldsWithoutConversation ==
    (/\ PastRule2
     /\ RoutedConvState = Absent
     /\ RoutedType # "greeting"
     /\ routeRes.analysis.intent_kind # "nonstr"
     /\ Rules4To7(RoutedType, HasPurchaseToken(routeRes.analysis)) # None)
        => routeRes.outcome =
              Return(Rules4To7(RoutedType, HasPurchaseToken(routeRes.analysis)))

(***************************************************************************)
(* Claims about the MemoryEngine                                           *)
(***************************************************************************)
\* the rows the last memory-engine call inserted
CreatedRows == {memRes.created[k] : k \in 1..Len(memRes.created)}

\* C2: every fact had, at the moment it was created, a confidence at or above
\* the confidence threshold of its own category (the category its key names),
\* whichever operation created it, update's create-new path included.
C2_CreatedAtOrAboveCategoryThreshold ==
    \A id \in CreatedRows :
        memories[id].confidence >= CategoryThreshold(memories[id].key.category)

\* C3: the fact store holds at most one fact per (user, category, key).
C3_OneFactPerKey ==
    \A i, j \in 1..Len(memories) :
        (memories[i].user_id = memories[j].user_id /\ memories[i].key = memories[j].key)
            => i = j

\* C4: every health_info fact has needs_confirmation = true at the moment it is
\* created, whichever operation creates it.
C4_HealthInfoNeedsConfirmation ==
    \A id \in CreatedRows :
        memories[id].key.category = "health_info" => memories[id].needs_confirmation

\* C7: a persistence-collaborator error raised during a core operation is
\* propagated to the caller as a failure of that operation, never turned into
\* a normal-looking result (a null fact, an empty list, an empty context).
C7_PersistenceErrorPropagates ==
    memRes.dbError => memRes.raised

(***************************************************************************)
(* Claims about the Orchestrator                                           *)
(***************************************************************************)
\* the try block of the last process_message call ended in an exception
BodyRaised == pmRes.called /\ pmRes.body.kind = "raise"

\* C5: process_message never raises.  When any step of its try block fails, the
\* call returns the fixed apology text with error = true and a timing computed
\* for that text: a typing_delay in [0.5, 8.0] seconds and a non-empty chunk
\* list.
C5_ProcessMessageNeverRaises ==
    pmRes.called =>
        /\ pmRes.outcome.kind = "return"
        /\ BodyRaised =>
            /\ pmRes.outcome.value.response = FallbackResponse
            /\ pmRes.outcome.value.error
            /\ pmRes.outcome.value.typing_delay >= MinTime
            /\ pmRes.outcome.value.typing_delay <= MaxTime
            /\ pmRes.outcome.value.message_chunks # << >>

\* C5 witness: a step of the try block failed with something other than a
\* persistence error, and the call returned the apology with its timing.
C5_Witness ==
    /\ BodyRaised
    /\ pmRes.body.value = "AttributeError"
    /\ pmRes.outcome = Return(FallbackResult)
    /\ FallbackResult.typing_delay = MaxTime
    /\ FallbackResult.message_chunks = <<FallbackResponse>>

\* the generation output on the analysis prompt was a failed call, not JSON,
\* or JSON that is not an object
AnalysisUnusable ==
    \/ pmRes.gen.kind \in {"call_fails", "not_json"}
    \/ pmRes.gen.kind = "json" /\ pmRes.gen.parsed.kind # "object"

\* C6: when the generation call fails, its output is not JSON, or the JSON is
\* not an object, analyze returns the safe default (type question, neutral
\* sentiment, low urgency, requires_human false), and routing then proceeds
\* and produces a decision.
C6_AnalyzeFallsBackToDefault ==
    (pmRes.called /\ AnalysisUnusable) =>
        /\ pmRes.analysis = DefaultAnalysis
        /\ pmRes.decision.kind = "return"

\* Of C6's three cases, the two the except branch of _analyze_message covers do
\* give the default analysis; only the JSON non-object escapes it.
C6_DefaultOnFailedCallOrNotJson ==
    (pmRes.called /\ pmRes.gen.kind \in {"call_fails", "not_json"}) =>
        pmRes.analysis = DefaultAnalysis

(***************************************************************************)
(* Claims about conversations driven through send_message                  *)
(***************************************************************************)
\* the last request reached the router with an analysis that matches none of
\* rules 1 to 7
MatchesNoRule1To7 ==
    /\ chatRes.called
    /\ chatRes.failure = "none"
    /\ conversations[chatRes.conversation_id] = "active"
    /\ AnalyzeMessage(chatRes.gen).kind = "object"
    /\ ~RequiresHandoff(AnalyzeMessage(chatRes.gen))
    /\ DictGet(AnalyzeMessage(chatRes.gen).type, "question") \in {"question", "goodbye"}
    /\ ~HasPurchaseToken(AnalyzeMessage(chatRes.gen))

\* C11: in a conversation driven through send_message, a new message that
\* matches none of rules 1 to 7 is routed to Discovery when the immediately
\* preceding reply of the conversation was produced by Discovery, and to
\* GeneralChat otherwise.
C11_HistoryRule ==
    MatchesNoRule1To7 =>
        chatRes.decision =
            IF chatRes.prev_agent = "discovery"
            THEN Return("discovery")
            ELSE Return("general_chat")

\* C12: route is total and deterministic: for every analysis, conversation
\* state, history and profile it yields exactly one of the six AgentDecision
\* values, and a second evaluation on the same inputs yields the same decision.
C12_RouteTotalAndDeterministic ==
    (Routed /\ ~routeRes.dbFails) =>
        /\ routeRes.outcome.kind = "return"
        /\ routeRes.outcome.value \in AgentDecision
        /\ routeRes.outcome = RouteToAgent(routeRes.analysis, routeRes.user_id,
                                           routeRes.conversation_id, routeRes.dbFails)

\* The determinism half of C12 holds on its own: a second evaluation on the
\* same inputs gives the same outcome, a decision or the same exception.
C12_SecondEvaluationAgrees ==
    routeRes.called =>
        routeRes.outcome = RouteToAgent(routeRes.analysis, routeRes.user_id,
                                        routeRes.conversation_id, routeRes.dbFails)

\* The last half of C12 holds as well: evaluating route changes no stored
\* conversation, message or fact.
C12_RouteChangesNoStoredState ==
    [][routeRes' # routeRes =>
          UNCHANGED <<conversations, messages, memories, stream, timers, runs>>]_vars

(***************************************************************************)
(* Claims about update_memory and confirm_memory                           *)
(***************************************************************************)
\* a value of the unit interval
InUnit(x) == 0 <= x /\ x <= Scale

\* the step is an update_memory call that found an existing fact and wrote it
UpdatedExisting ==
    /\ memRes'.op = "update"
    /\ memRes'.returned # << >>
    /\ memRes'.created = << >>

\* C13: update on an existing fact sets confidence to (existing confidence +
\* new confidence) / 2 and weight to min(existing weight + 0.1, 1.0) and
\* replaces the value; from a fact with confidence and weight in [0,1], any
\* number of updates with new confidences in [0,1] keeps both in [0,1].
C13_UpdateMergePolicy ==
    [][UpdatedExisting =>
          LET id == memRes'.returned[1] IN
          /\ 2 * memories'[id].confidence = memories[id].confidence + memRes'.confidence
          /\ memories'[id].weight =
                IF memories[id].weight + Pct(10) <= Scale
                THEN memories[id].weight + Pct(10)
                ELSE Scale
          /\ memories'[id].value = memRes'.value
          /\ memories'[id].key = memories[id].key
          /\ (InUnit(memories[id].confidence) /\ InUnit(memories[id].weight)
              /\ InUnit(memRes'.confidence))
                => (InUnit(memories'[id].confidence) /\ InUnit(memories'[id].weight))
      ]_vars

\* C13 witness: a name fact stored at confidence 0.9 and weight 1.0 was updated
\* with confidence 0.6: confidence 0.75, weight still 1.0, the new value.
C13_Witness ==
    /\ memRes.op = "update"
    /\ memRes.returned # << >>
    /\ memRes.created = << >>
    /\ memRes.confidence = Pct(60)
    /\ memories[memRes.returned[1]].confidence = Pct(75)
    /\ memories[memRes.returned[1]].weight = Scale
    /\ memories[memRes.returned[1]].value = memRes.value

\* the step is a confirm_memory call that found a fact still to be confirmed
\* and wrote it
ConfirmedPending ==
    /\ memRes'.op = "confirm"
    /\ memRes'.returned # << >>
    /\ memories[memRes'.returned[1]].needs_confirmation

\* C14: confirm on a fact whose needs_confirmation is true sets
\* needs_confirmation to false, sets confirmed_at, sets confidence to
\* min(confidence + 0.2, 1.0) and weight to min(weight + 0.2, 1.0), and leaves
\* the fact's key and value unchanged.
C14_ConfirmBoosts ==
    [][ConfirmedPending =>
          LET id == memRes'.returned[1] IN
          /\ ~memories'[id].needs_confirmation
          /\ memories'[id].confirmed
          /\ memories'[id].confidence =
                IF memories[id].confidence + Pct(20) <= Scale
                THEN memories[id].confidence + Pct(20)
                ELSE Scale
          /\ memories'[id].weight =
                IF memories[id].weight + Pct(20) <= Scale
                THEN memories[id].weight + Pct(20)
                ELSE Scale
          /\ memories'[id].key = memories[id].key
          /\ memories'[id].value = memories[id].value
      ]_vars

\* C14 witness: a health_info fact extracted at confidence 0.9 was confirmed:
\* needs_confirmation cleared, confirmed_at set, confidence capped at 1.0.
C14_Witness ==
    /\ memRes.op = "confirm"
    /\ memRes.returned # << >>
    /\ memories[memRes.returned[1]].key.category = "health_info"
    /\ memories[memRes.returned[1]].confirmed
    /\ ~memories[memRes.returned[1]].needs_confirmation
    /\ memories[memRes.returned[1]].confidence = Scale
    /\ memories[memRes.returned[1]].weight = Scale

(***************************************************************************)
(* Claims about the completeness score                                     *)
(***************************************************************************)
\* every personal_info, health_info and preferences signal, no lifestyle fact
FullSignalsNoLifestyle(context) ==
    /\ {"name", "age"} \subseteq context.personal_info
    /\ ("skin_type" \in context.health_info \/ "pregnancy_status" \in context.health_info)
    /\ "allergies" \in context.health_info
    /\ {"product_fragrance", "budget_range"} \subseteq context.preferences
    /\ context.lifestyle = 0

\* C15: the completeness score of any set of facts is in [0,1]; it is 0 for a
\* user with no facts; for a user with every personal_info, health_info and
\* preferences signal but no lifestyle fact it is at most 0.8.
C15_CompletenessScore ==
    fnRes.op = "completeness" =>
        /\ 0 <= fnRes.score /\ fnRes.score <= ScoreScale
        /\ fnRes.context = EmptyContext => fnRes.score = 0
        /\ FullSignalsNoLifestyle(fnRes.context) => 10 * fnRes.score <= 8 * ScoreScale

\* C15 witness: the score was computed for a user with all signals and no
\* lifestyle fact, and is exactly 0.8.
C15_Witness ==
    /\ fnRes.op = "completeness"
    /\ FullSignalsNoLifestyle(fnRes.context)
    /\ 10 * fnRes.score = 8 * ScoreScale

(***************************************************************************)
(* Claims about the TimingEngine                                           *)
(***************************************************************************)
\* C16: for every non-empty chunk list and every total delay T from 0.5 to 8.0,
\* distributeDelay returns a list of the same length as chunks whose entries
\* sum to T; for a single chunk it returns [T].  Stated here for lists of
\* non-empty chunks, as message splitting produces them.
C16_DistributeDelaySumsToTotal ==
    (/\ fnRes.op = "distribute"
     /\ fnRes.chunks # << >>
     /\ \A i \in DOMAIN fnRes.chunks : fnRes.chunks[i] >= 1) =>
        /\ fnRes.outcome.kind = "return"
        /\ Len(fnRes.outcome.value.nums) = Len(fnRes.chunks)
        /\ 10 * SeqSum(fnRes.outcome.value.nums)
              = fnRes.total_delay * fnRes.outcome.value.den
        /\ Len(fnRes.chunks) = 1 =>
              fnRes.outcome.value = Delays(10, <<fnRes.total_delay>>)

\* The claim does hold whenever the last chunk's proportional share is at
\* least 0.1 s: the failures are the 0.1 s floor of the last delay and the
\* division by a zero total length.
C16_HoldsWhenLastShareAtLeastTenth ==
    (/\ fnRes.op = "distribute"
     /\ fnRes.chunks # << >>
     /\ SeqSum(fnRes.chunks) > 0
     /\ fnRes.total_delay * fnRes.chunks[Len(fnRes.chunks)] >= SeqSum(fnRes.chunks)) =>
        /\ fnRes.outcome.kind = "return"
        /\ Len(fnRes.outcome.value.nums) = Len(fnRes.chunks)
        /\ 10 * SeqSum(fnRes.outcome.value.nums)
              = fnRes.total_delay * fnRes.outcome.value.den

\* no word of the message is longer than max_length
NoOverlongWord(message, max_length) ==
    \A i \in 1..Len(SplitWords(message)) : Len(SplitWords(message)[i]) <= max_length

\* C17: for every message in which no single word is longer than maxLength,
\* every chunk returned by splitMessage(message, maxLength) has at most
\* maxLength characters; a sentence longer than maxLength is word-split
\* wherever it occurs, also when it follows a chunk that is already open.
C17_ChunksWithinMaxLength ==
    (/\ fnRes.op = "split"
     /\ fnRes.preserve_sentences
     /\ NoOverlongWord(fnRes.message, fnRes.max_length)) =>
        \A i \in 1..Len(fnRes.chunks) : Len(fnRes.chunks[i]) <= fnRes.max_length

\* The bound does hold when the message is split by words only
\* (preserve_sentences = False): the overlong chunks all come from the
\* sentence loop.
C17_HoldsForWordSplit ==
    (/\ fnRes.op = "split"
     /\ ~fnRes.preserve_sentences
     /\ NoOverlongWord(fnRes.message, fnRes.max_length)) =>
        \A i \in 1..Len(fnRes.chunks) : Len(fnRes.chunks[i]) <= fnRes.max_length

\* the characters of s that are not blank, in order
NonBlank(s) == SelectSeq(s, LAMBDA c : ~IsSpace(c))

RECURSIVE Concat(_)
\* "".join(chunks)
Concat(chunks) ==
    IF chunks = << >> THEN << >> ELSE Head(chunks) \o Concat(Tail(chunks))

\* C18: splitMessage never drops or reorders content: for every message and
\* maxLength, the chunks concatenated in order give, whitespace aside, the
\* characters of the original message in their original order.
C18_SplitKeepsContent ==
    fnRes.op = "split" => NonBlank(Concat(fnRes.chunks)) = NonBlank(fnRes.message)

\* C18 witness: a message of two sentences, the second longer than max_length,
\* was split into several chunks that together hold all its characters.
C18_Witness ==
    /\ fnRes.op = "split"
    /\ fnRes.message = <<"a", ".", "a", " ", "a", "?">>
    /\ fnRes.max_length = 2
    /\ fnRes.preserve_sentences
    /\ Len(fnRes.chunks) >= 2
    /\ NonBlank(Concat(fnRes.chunks)) = NonBlank(fnRes.message)

\* number of terminal punctuation marks (., ! or ?) in the message
TerminalMarks(message) == Cardinality({i \in DOMAIN message : IsTerminator(message[i])})

\* C19: for every message with at most 10 words and at most one terminal
\* punctuation mark, wherever in the message that mark stands,
\* determineComplexity returns simple.
C19_ShortMessageIsSimple ==
    (/\ fnRes.op = "complexity"
     /\ WordCount(fnRes.message) <= 10
     /\ TerminalMarks(fnRes.message) <= 1) =>
        fnRes.complexity = "simple"

\* The claim does hold when the one mark ends the message (nothing but blanks
\* after it): the failures are the marks with text on both sides.
C19_HoldsForFinalMark ==
    (/\ fnRes.op = "complexity"
     /\ WordCount(fnRes.message) <= 10
     /\ TerminalMarks(fnRes.message) <= 1
     /\ \A i \in DOMAIN fnRes.message :
           IsTerminator(fnRes.message[i]) =>
               \A j \in (i + 1)..Len(fnRes.message) : IsSpace(fnRes.message[j])) =>
        fnRes.complexity = "simple"

\* C20: for every message, complexity and pattern, calculateDelay returns a
\* value in [0.5, 8.0]; with complexity and pattern held fixed, adding words to
\* a message never makes the returned delay smaller.
C20_DelayBoundedAndMonotone ==
    fnRes.op = "delay" =>
        /\ MinTime <= fnRes.delay /\ fnRes.delay <= MaxTime
        /\ MinTime <= fnRes.delay_more /\ fnRes.delay_more <= MaxTime
        /\ fnRes.delay <= fnRes.delay_more

\* C20 witness: a word was added between "you" and "know", which removes the
\* thinking phrase from the message: 1.9 s before, 2.3 s after, neither at a
\* bound.
C20_Witness ==
    /\ fnRes.op = "delay"
    /\ fnRes.words = << <<"y", "o", "u">>, <<"k", "n", "o", "w">> >>
    /\ fnRes.at = 1
    /\ fnRes.word = <<"a">>
    /\ fnRes.complexity = "simple"
    /\ fnRes.pattern = "fast"
    /\ fnRes.delay = 19
    /\ fnRes.delay_more = 23

(***************************************************************************)
(* Claims about the chat stream                                            *)
(***************************************************************************)
\* the stream of a response with n chunks when nothing fails: typing_start, then
\* for each chunk its delay and its event, index 0..n-1, is_final on the last
\* only, then message_complete
CompleteStream(n, items) ==
    /\ Len(items) = 2 * n + 2
    /\ items[1].event = "typing_start"
    /\ \A k \in 1..n :
        /\ items[2 * k].event = "sleep"
        /\ items[2 * k + 1].event = "message_chunk"
        /\ items[2 * k + 1].chunk_index = k - 1
        /\ items[2 * k + 1].is_final = (k = n)
    /\ items[2 * n + 2].event = "message_complete"

\* the same stream cut by an error: typing_start first, the chunks in order as
\* far as they went, the error event last and no message_complete
StreamCutByError(n, items) ==
    /\ Len(items) >= 2 /\ Len(items) <= 2 * n + 2
    /\ items[1].event = "typing_start"
    /\ items[Len(items)].event = "error"
    /\ \A k \in 1..n :
        /\ 2 * k < Len(items) => items[2 * k].event = "sleep"
        /\ 2 * k + 1 < Len(items) =>
            /\ items[2 * k + 1].event = "message_chunk"
            /\ items[2 * k + 1].chunk_index = k - 1
            /\ items[2 * k + 1].is_final = (k = n)

\* the items are the stream of a response with the chunks of response_data
StreamOfResponse(response_data, items) ==
    /\ response_data # None
    /\ LET n == Len(response_data.message_chunks) IN
        CompleteStream(n, items) \/ StreamCutByError(n, items)

\* C21: for a response with n chunks the chat stream emits one typing_start
\* first, then the n message_chunk events with index 0..n-1 in order, is_final
\* on the last only and the chunk's delay before each, then one
\* message_complete; an error event is the last event and is not followed by
\* message_complete.
C21_StreamEventOrder ==
    /\ stream.called => StreamOfResponse(stream.response_data, stream.items)
    /\ fnRes.op = "generate" => StreamOfResponse(fnRes.response_data, fnRes.items)

\* what the code does instead: the request is answered with HTTP 500 and no
\* event, and generate_stream on a response of process_message yields the error
\* event alone
C21_NoEventButError ==
    /\ stream.called => stream.status = 500 /\ stream.items = << >>
    /\ fnRes.op = "generate" => fnRes.items = <<StreamError>>

(***************************************************************************)
(* Claims about the timer run                                              *)
(***************************************************************************)
\* the timer ids of a list
TimersOf(q) == {q[i] : i \in DOMAIN q}

\* C22: in a run over several due timers, whatever fails on one timer (also
\* while that failure is being recorded), every due timer of the run is still
\* processed and the run reports its result.
C22_TimerFailureIsolated ==
    \A r \in RunIds :
        runs[r].pc = "done" /\ Cardinality(runs[r].due) >= 2 =>
            /\ runs[r].status = 200
            /\ runs[r].due \subseteq TimersOf(runs[r].scheduled)

\* what the code does instead: every run ends in HTTP 500 with no timer
\* handed to background execution and no timer row written
C22_EveryRunAborts ==
    /\ \A r \in RunIds :
        runs[r].pc = "done" => runs[r].status = 500 /\ runs[r].scheduled = << >>
    /\ [][timers' = timers]_vars

(***************************************************************************)
(* Claims about the steps and the writes of process_message                *)
(***************************************************************************)
\* the place of a step in the order analyze, route, generate the reply, update
\* memory, compute timing (0: a step the order does not name)
StepRank(step) ==
    IF step = "analyze" THEN 1
    ELSE IF step = "route" THEN 2
    ELSE IF step = "agent" THEN 3
    ELSE IF step = "memory_update" THEN 4
    ELSE IF step = "timing" THEN 5
    ELSE 0

\* the steps of the call that are persistent writes
Writes(steps) == {i \in DOMAIN steps : steps[i] \in {"create_handoff", "memory_update"}}

\* C23: within one process_message call the steps happen in the order analyze,
\* route, generate the reply, update memory, compute timing; the memory update
\* completes before the timing of the reply is computed.
C23_StepsInOrder ==
    pmRes.called =>
        /\ \A i, j \in DOMAIN pmRes.steps :
            i < j /\ StepRank(pmRes.steps[i]) > 0 /\ StepRank(pmRes.steps[j]) > 0
                => StepRank(pmRes.steps[i]) < StepRank(pmRes.steps[j])
        /\ \A j \in DOMAIN pmRes.steps :
            pmRes.steps[j] = "timing" =>
                \E i \in 1..(j - 1) : pmRes.steps[i] = "memory_update"

\* what the code does instead: every call computes the timing of its reply
\* and no call completes a memory update
C23_TimingWithoutMemoryUpdate ==
    pmRes.called =>
        /\ pmRes.steps[Len(pmRes.steps)] = "timing"
        /\ \A i \in DOMAIN pmRes.steps : pmRes.steps[i] # "memory_update"

C27_FallbackLeavesStateUnchanged ==
    pmRes.called /\ pmRes.outcome.kind = "return" /\ pmRes.outcome.value.error =>
        Writes(pmRes.steps) = {}

\* the fallback returned by a call that was routed to the human handoff, the
\* agent step that stores a row
C27_Witness ==
    /\ pmRes.called
    /\ pmRes.outcome = Return(FallbackResult)
    /\ pmRes.decision = Return("handoff_human")
    /\ pmRes.steps = <<"analyze", "route", "timing">>
    /\ memories = << >>

(***************************************************************************)
(* Claims about extraction failures                                        *)
(***************************************************************************)
\* the _store_memory call was answered with a stored row that the extract call
\* returned
StoredAndReturned(call) ==
    \E k \in DOMAIN memRes.returned :
        /\ memories[memRes.returned[k]].key = call.key
        /\ memories[memRes.returned[k]].value = call.value

\* the candidates of the last extract call that no failure touched: found by an
\* extractor that did not raise, at or above their category's threshold, and
\* stored without an error of the persistence collaborator
UntouchedCalls ==
    LET calls == ExtractCalls(memRes.text) IN
    {i \in DOMAIN calls :
        /\ i \notin memRes.failing
        /\ calls[i].confidence >= CategoryThreshold(calls[i].category)}

\* C24: a failure of one category's extractor, or of storing one candidate,
\* drops only that fact: the candidates of the other categories found in the
\* same text are still stored and returned.
C24_ExtractionFailureIsolated ==
    memRes.op = "extract" =>
        \A i \in UntouchedCalls : StoredAndReturned(ExtractCalls(memRes.text)[i])

\* the half that holds: when no extractor raises, a candidate whose store
\* fails is dropped alone
C24_StoreFailureIsolated ==
    memRes.op = "extract" /\ ~ExtractorRaises(memRes.text) =>
        \A i \in UntouchedCalls : StoredAndReturned(ExtractCalls(memRes.text)[i])

\* a store failure on one candidate with another candidate of the same text
\* stored and returned
C24_StoreFailureCase ==
    /\ memRes.op = "extract"
    /\ memRes.failing = {1}
    /\ Len(memRes.returned) = 1

(***************************************************************************)
(* Claims about blank chunks                                               *)
(***************************************************************************)
\* C25: for every message, the empty and the whitespace-only message and the
\* messages not longer than maxLength included, no chunk of splitMessage is
\* empty or whitespace-only.
C25_NoBlankChunk ==
    fnRes.op = "split" =>
        \A i \in DOMAIN fnRes.chunks : Strip(fnRes.chunks[i]) # << >>

\* the half that holds: a message longer than max_length goes through the
\* clean-up and has no blank chunk
C25_HoldsForLongMessages ==
    fnRes.op = "split" /\ Len(fnRes.message) > fnRes.max_length =>
        \A i \in DOMAIN fnRes.chunks : Strip(fnRes.chunks[i]) # << >>

\* a whitespace-only message longer than max_length: it has no chunk at all
C25_LongBlankMessageCase ==
    /\ fnRes.op = "split"
    /\ fnRes.message = <<" ", " ">>
    /\ fnRes.max_length = 1
    /\ fnRes.chunks = << >>

(***************************************************************************)
(* Claims about reading back what update and confirm wrote                 *)
(***************************************************************************)
\* the last call was an update that succeeded on an existing fact
LastUpdatedExisting ==
    /\ memRes.op = "update"
    /\ ~memRes.dbError
    /\ memRes.returned # << >>
    /\ memRes.created = << >>

\* the context shows, for the key of the update, the value, confidence and
\* weight of the row the update wrote
ShowsUpdatedRow(context, id) ==
    \E f \in context :
        /\ f.key = memories[id].key
        /\ f.value = memories[id].value
        /\ f.confidence = memories[id].confidence
        /\ f.weight = memories[id].weight

\* C28: after any sequence of extract-and-store and update operations, once
\* update(user, key, v, c) has succeeded on an existing fact, the context
\* returned for that user shows value v for that key, with the confidence and
\* weight that update just wrote (here: the context read right after the
\* update, before any other write).
C28_ContextShowsUpdate ==
    [][(/\ LastUpdatedExisting
        /\ memRes'.op = "context"
        /\ ~memRes'.dbError
        /\ memRes'.user_id = memRes.user_id)
          => /\ memories[memRes.returned[1]].value = memRes.value
             /\ ShowsUpdatedRow(memRes'.context, memRes.returned[1])]_vars

\* the half that holds: when the user has one row with the key, the context
\* read right after the update shows what the update wrote
C28_HoldsForSingleRow ==
    [][(/\ LastUpdatedExisting
        /\ memRes'.op = "context"
        /\ ~memRes'.dbError
        /\ memRes'.user_id = memRes.user_id
        /\ \A j \in UserRows(memories, memRes.user_id) :
              memories[j].key = memRes.key => j = memRes.returned[1])
          => /\ memories[memRes.returned[1]].value = memRes.value
             /\ ShowsUpdatedRow(memRes'.context, memRes.returned[1])]_vars

\* the step is a confirm of the key the last call confirmed, by the same user,
\* the last call having returned the confirmed fact
ConfirmedAgain ==
    /\ memRes.op = "confirm"
    /\ ~memRes.dbError
    /\ memRes.returned # << >>
    /\ memRes'.op = "confirm"
    /\ memRes'.user_id = memRes.user_id
    /\ memRes'.key = memRes.key

\* C29: confirm is idempotent: confirming a fact a second time, with no update
\* in between, leaves its confidence, weight, needs_confirmation and
\* confirmed_at exactly as the first confirm left them, so the boost is
\* applied at most once per (user, key).
C29_ConfirmIdempotent ==
    [][ConfirmedAgain => memories' = memories]_vars

\* the half that holds: the row the first confirm returned is left as it was
C29_ConfirmedRowUntouched ==
    [][ConfirmedAgain =>
         memories'[memRes.returned[1]] = memories[memRes.returned[1]]]_vars

\* and with one row for the key the second confirm writes nothing
C29_HoldsForSingleRow ==
    [][(/\ ConfirmedAgain
        /\ \A j \in UserRows(memories, memRes.user_id) :
              memories[j].key = memRes.key => j = memRes.returned[1])
          => memories' = memories]_vars

====
